---- MODULE Spec2Model ----
(***************************************************************************)
(* A model of the KGTK Kypher graph cache (kgtk/kypher/sqlstore.py) and    *)
(* the literal functions it registers.  The store is an SQLite database    *)
(* holding the catalog tables fileinfo and graphinfo, the graph_N tables   *)
(* and their <table>_<column>_idx indexes.                                 *)
(***************************************************************************)
EXTENDS Integers, Sequences, FiniteSets, TLC

(***************************************************************************)
(* Bounds of the model.                                                    *)
(***************************************************************************)
\* the largest N of a graph_N table the model lets add_graph allocate
MaxTables == 2

\* pragma page_size of the database (the docstring's one-page graph: 4096)
PageSize == 4096

\* SQL NULL and Python None as a field value; None where a record is expected
NULL == "NULL"
None == [none |-> TRUE]

(***************************************************************************)
(* The file system: named input files and one symbolic link.               *)
(***************************************************************************)
Paths == {"f1", "f2", "l1"}

\* os.path.realpath: l1 is a link to f1
RealPath(p) == IF p = "l1" THEN "f1" ELSE p

Files == {RealPath(p) : p \in Paths}

\* the header line of every input file
Header == <<"node1", "node2">>

\* the data rows a file may hold; the second row of the third content has
\* one field only (its arity differs from the header)
Contents ==
    { << <<"a", "a">>, <<"b", "a">> >>,
      << <<"a", "b">>, <<"b">> >>,
      << <<"b", "b">>, <<"b", "a">> >> }

\* what each file may hold: f2 is only ever rewritten with the same data
ContentsOf(f) ==
    IF f = "f1" THEN { << <<"a", "a">>, <<"b", "a">> >>, << <<"a", "b">>, <<"b">> >> }
    ELSE { << <<"b", "b">>, <<"b", "a">> >> }

\* the modification times each file may get, and the time.time() of an import
TimesOf(f) == IF f = "f1" THEN {1, 2} ELSE {1}
Clock == {3}

RECURSIVE SumLen(_)
SumLen(rs) == IF rs = <<>> THEN 0 ELSE Len(Head(rs)) + SumLen(Tail(rs))

\* os.path.getsize: one byte per field and per separator or line end
FileSize(rs) == 2 * Len(Header) + 2 * SumLen(rs)

VARIABLES
    files,        \* real path -> [rows, modtime]: the input files on disk
    master,       \* sqlite_master: the tables and indexes of the database
    rows,         \* graph table name -> the rows it holds
    fileinfo,     \* the rows of table fileinfo
    graphinfo,    \* the rows of table graphinfo
    txn,          \* the open transaction of the connection, if any
    call          \* the last call made on the store and how it ended

vars == <<files, master, rows, fileinfo, graphinfo, txn, call>>

cache == <<master, rows, fileinfo, graphinfo>>

\* the database as one value, for the operators that transform it
DB == [master |-> master, rows |-> rows, fileinfo |-> fileinfo,
       graphinfo |-> graphinfo, txn |-> txn]

\* no transaction is open
NoTxn == [open |-> FALSE]

(***************************************************************************)
(* Names.                                                                  *)
(***************************************************************************)
\* 'graph_%d' % graphid
GraphTable(n) == <<"graph", n>>

GraphNames == {GraphTable(n) : n \in 1..MaxTables}

\* get_index_name: '%s_%s_idx' % (table_name, column_name)
get_index_name(t, col) == t \o <<col, "idx">>

StatTable == <<"sqlite_stat1">>

(***************************************************************************)
(* DB properties.                                                          *)
(***************************************************************************)
\* has_table: SELECT COUNT(*) FROM sqlite_master WHERE name=?
has_table(db, name) == \E m \in db.master : m.name = name

\* has_index looking for the name without its _idx suffix
has_index_wrong_name(db, t, col) == has_table(db, t \o <<col>>)

\* has_index: keyed on the name alone, whatever the type of the object
has_index(db, t, col) == has_table(db, get_index_name(t, col))

RECURSIVE SumPages(_, _)
SumPages(db, ms) ==
    IF ms = {} THEN 0
    ELSE LET m == CHOOSE x \in ms : TRUE
             r == IF m.tbl_name \in DOMAIN db.rows THEN db.rows[m.tbl_name] ELSE <<>>
         IN  (1 + Len(r)) + SumPages(db, ms \ {m})

\* get_db_size: (page_count - freelist_count) * page_size; every table and
\* index holds a root page and a page per row, the two catalog tables one each
get_db_size(db) == (2 + SumPages(db, db.master)) * PageSize

\* number_of_graphs: the row count of graphinfo
number_of_graphs(db) == Cardinality(db.graphinfo)

RECURSIVE SearchOpenId(_, _)
SearchOpenId(db, graphid) ==
    IF ~has_table(db, GraphTable(graphid)) THEN graphid
    ELSE SearchOpenId(db, graphid + 1)

\* new_graph_table starting its search at number_of_graphs()
new_graph_id_from_count(db) == SearchOpenId(db, number_of_graphs(db))

\* new_graph_table: the first open id from number_of_graphs() + 1 upwards
NewGraphId(db) == SearchOpenId(db, number_of_graphs(db) + 1)

new_graph_table(db) == GraphTable(NewGraphId(db))

(***************************************************************************)
(* Generic record access.                                                  *)
(***************************************************************************)
\* get_record_info on fileinfo (key: file) and graphinfo (key: name)
FileRows(db, file) == {r \in db.fileinfo : r.file = file}
GraphRows(db, name) == {r \in db.graphinfo : r.name = name}

\* get_file_info: the row of the real path, or None
get_file_info(db, p) ==
    IF FileRows(db, RealPath(p)) = {} THEN None
    ELSE CHOOSE r \in FileRows(db, RealPath(p)) : TRUE

\* get_graph_info
get_graph_info(db, name) ==
    IF GraphRows(db, name) = {} THEN None
    ELSE CHOOSE r \in GraphRows(db, name) : TRUE

\* the implicit BEGIN of the sqlite3 module before an INSERT, UPDATE or DELETE:
\* the transaction remembers the database it would roll back to
Begin(db) ==
    IF db.txn.open THEN db
    ELSE [db EXCEPT !.txn = [open |-> TRUE, master |-> db.master, rows |-> db.rows,
                             fileinfo |-> db.fileinfo, graphinfo |-> db.graphinfo]]

\* commit: the changes of the open transaction become durable
Commit(db) == [db EXCEPT !.txn = NoTxn]

\* what closing the connection does to an open transaction
Rollback(db) ==
    IF db.txn.open
    THEN [master |-> db.txn.master, rows |-> db.txn.rows, fileinfo |-> db.txn.fileinfo,
          graphinfo |-> db.txn.graphinfo, txn |-> NoTxn]
    ELSE db

\* set_record_info on fileinfo: INSERT when the key is new, else UPDATE; commit
set_file_info(db, info) ==
    Commit([db EXCEPT !.fileinfo =
        IF FileRows(db, info.file) = {} THEN @ \cup {info}
        ELSE {IF r.file = info.file THEN info ELSE r : r \in @}])

\* set_record_info on graphinfo with an UPDATE that has lost its WHERE clause
set_graph_info_every_row(db, info) ==
    Commit([db EXCEPT !.graphinfo =
        IF GraphRows(db, info.name) = {} THEN @ \cup {info}
        ELSE {info}])

\* set_record_info on graphinfo
set_graph_info(db, info) ==
    Commit([db EXCEPT !.graphinfo =
        IF GraphRows(db, info.name) = {} THEN @ \cup {info}
        ELSE {IF r.name = info.name THEN info ELSE r : r \in @}])

\* drop_file_info / drop_graph_info: DELETE ... WHERE key=?; commit
drop_file_info(db, file) ==
    Commit([db EXCEPT !.fileinfo = {r \in @ : r.file # RealPath(file)}])

drop_graph_info(db, name) ==
    Commit([db EXCEPT !.graphinfo = {r \in @ : r.name # name}])

\* get_graph_files with its WHERE clause negated
get_graph_files_of_others(db, name) == {r.file : r \in {x \in db.fileinfo : x.graph # name}}

\* get_graph_files: the files whose fileinfo row names the table
get_graph_files(db, name) == {r.file : r \in {x \in db.fileinfo : x.graph = name}}

RECURSIVE DropFileInfos(_, _)
DropFileInfos(db, fs) ==
    IF fs = {} THEN db
    ELSE LET f == CHOOSE x \in fs : TRUE
         IN  DropFileInfos(drop_file_info(db, f), fs \ {f})

\* DROP TABLE: the table goes with its indexes and its rows
DropTable(db, name) ==
    [db EXCEPT !.master = {m \in @ : m.tbl_name # name},
               !.rows = [t \in DOMAIN @ \ {name} |-> @[t]]]

\* drop_graph deleting the info records only
drop_graph_infos_only(db, name) ==
    drop_graph_info(DropFileInfos(db, get_graph_files(db, name)), name)

\* drop_graph dropping the table and leaving the info records
drop_graph_table_only(db, name) ==
    IF has_table(db, name) THEN DropTable(db, name) ELSE db

\* drop_graph
drop_graph(db, name) ==
    LET d1 == DropFileInfos(db, get_graph_files(db, name))
        d2 == drop_graph_info(d1, name)
    IN  IF has_table(d2, name) THEN DropTable(d2, name) ELSE d2

\* has_graph with the size test inverted
has_graph_inverted(db, p) ==
    LET info == get_file_info(db, p)
    IN  IF info # None
        THEN IF info.size = FileSize(files[RealPath(p)].rows) THEN FALSE
             ELSE IF info.modtime # files[RealPath(p)].modtime THEN FALSE
             ELSE TRUE
        ELSE FALSE

\* has_graph: the file is recorded with its current size and modtime
has_graph(db, p) ==
    LET info == get_file_info(db, p)
    IN  IF info # None
        THEN IF info.size # FileSize(files[RealPath(p)].rows) THEN FALSE
             ELSE IF info.modtime # files[RealPath(p)].modtime THEN FALSE
             ELSE TRUE
        ELSE FALSE

(***************************************************************************)
(* Data import.                                                            *)
(***************************************************************************)
\* CREATE TABLE from get_table_definition of the header's schema
CreateTable(db, table, header) ==
    [db EXCEPT !.master = @ \cup {[type |-> "table", name |-> table,
                                   tbl_name |-> table, cols |-> header]},
               !.rows = [t \in DOMAIN @ \cup {table} |->
                            IF t = table THEN <<>> ELSE @[t]]]

\* the rows before the first one whose arity is not the header's
RECURSIVE GoodPrefix(_, _)
GoodPrefix(rs, n) ==
    IF rs = <<>> \/ Len(Head(rs)) # n THEN <<>>
    ELSE <<Head(rs)>> \o GoodPrefix(Tail(rs), n)

\* import_graph_data_via_csv: CREATE TABLE, then executemany INSERT, which
\* raises on the first row whose number of values is not the header's and
\* leaves the rows before it in the open transaction; commit at the end only
import_graph_data_via_csv(db, table, p) ==
    LET data == files[RealPath(p)].rows
        d1 == CreateTable(db, table, Header)
        good == GoodPrefix(data, Len(Header))
        d2 == [Begin(d1) EXCEPT !.rows[table] = good]
    IN  IF good = data
        THEN [db |-> Commit(d2), raised |-> "none", via |-> "csv"]
        ELSE [db |-> d2, raised |-> "ProgrammingError", via |-> "csv"]

\* a row as the sqlite shell's .import stores it: missing fields are NULL
Pad(row, n) == [i \in 1..n |-> IF i <= Len(row) THEN row[i] ELSE NULL]

\* what the native import can meet
Engines == {"ok", "not_found", "not_applicable", "rejected"}

\* import_graph_data_via_import.  not_applicable: the checks before the import
\* raise KGTKException (not posix, multi-character line endings); not_found:
\* sh.Command raises CommandNotFound; in both no table has been created yet.
\* Otherwise the table is created and committed and the sqlite shell imports:
\* rejected is the shell ending with an error, which sh raises as
\* ErrorReturnCode from sqlproc.wait()
import_graph_data_via_import(db, table, p, engine) ==
    LET data == files[RealPath(p)].rows
        d1 == Commit(CreateTable(db, table, Header))
    IN  CASE engine = "not_applicable" ->
               [db |-> db, raised |-> "KGTKException", via |-> "import"]
          [] engine = "not_found" ->
               [db |-> db, raised |-> "CommandNotFound", via |-> "import"]
          [] engine = "rejected" ->
               [db |-> d1, raised |-> "ErrorReturnCode", via |-> "import"]
          [] OTHER ->
               [db |-> [d1 EXCEPT !.rows[table] =
                          [i \in 1..Len(data) |-> Pad(data[i], Len(Header))]],
                raised |-> "none", via |-> "import"]

\* the try/except of add_graph: the csv import runs when the native import
\* raised KGTKException or sh.CommandNotFound
ImportGraphData(db, table, p, engine) ==
    LET r == import_graph_data_via_import(db, table, p, engine)
    IN  IF r.raised \in {"KGTKException", "CommandNotFound"}
        THEN import_graph_data_via_csv(r.db, table, p)
        ELSE r

\* add_graph up to the allocation of the table name
BeforeImport(db, p) ==
    LET file_info == get_file_info(db, p)
    IN  IF file_info # None THEN drop_graph(db, file_info.graph) ELSE db

\* add_graph
add_graph(db, p, engine, now) ==
    IF has_graph(db, p) THEN [db |-> db, raised |-> "none", via |-> "none"]
    ELSE LET d1 == BeforeImport(db, p)
             table == new_graph_table(d1)
             oldsize == get_db_size(d1)
             r == ImportGraphData(d1, table, p, engine)
             graphsize == get_db_size(r.db) - oldsize
             header == (CHOOSE m \in r.db.master : m.name = table).cols
             d2 == set_file_info(r.db, [file |-> RealPath(p),
                                      size |-> FileSize(files[RealPath(p)].rows),
                                      modtime |-> files[RealPath(p)].modtime,
                                      graph |-> table])
             d3 == set_graph_info(d2, [name |-> table, header |-> header,
                                     size |-> graphsize, acctime |-> now])
         IN  IF r.raised # "none" THEN r
             ELSE [db |-> d3, raised |-> "none", via |-> r.via]

(***************************************************************************)
(* Indexes.                                                                *)
(***************************************************************************)
\* the position of a column in a header, 0 when it is not one of its columns
ColumnPos(header, col) ==
    IF \E i \in 1..Len(header) : header[i] = col
    THEN CHOOSE i \in 1..Len(header) : header[i] = col
    ELSE 0

\* whether two rows of the table agree on the column (NULLs never agree)
HasDuplicates(db, t, k) ==
    \E i, j \in 1..Len(db.rows[t]) :
        i # j /\ db.rows[t][i][k] # NULL /\ db.rows[t][i][k] = db.rows[t][j][k]

\* CREATE [UNIQUE] INDEX "<table>_<column>_idx" on <table> ("<column>")
CreateIndex(db, t, col) ==
    [db EXCEPT !.master = @ \cup {[type |-> "index", name |-> get_index_name(t, col),
                                   tbl_name |-> t, cols |-> <<col>>]}]

\* ANALYZE "<index>": the first one creates table sqlite_stat1
Analyze(db) ==
    [db EXCEPT !.master = @ \cup {[type |-> "table", name |-> StatTable,
                                   tbl_name |-> StatTable, cols |-> <<>>]}]

\* ensure_graph_index recording the growth of the index as the size
ensure_graph_index_size_replaced(db, t, col, unique, explain) ==
    LET info == get_graph_info(db, t)
        k == ColumnPos(info.header, col)
        oldsize == get_db_size(db)
        d1 == IF explain THEN db ELSE CreateIndex(db, t, col)
        d2 == IF explain THEN d1 ELSE Analyze(d1)
        idxsize == get_db_size(d2) - oldsize
        ginfo == [get_graph_info(d2, t) EXCEPT !.size = idxsize]
    IN  IF info = None THEN [db |-> db, raised |-> "AttributeError"]
        ELSE IF k = 0 THEN [db |-> db, raised |-> "KeyError"]
        ELSE IF has_index(db, t, col) THEN [db |-> db, raised |-> "none"]
        ELSE IF ~explain /\ has_table(db, get_index_name(t, col))
             THEN [db |-> db, raised |-> "OperationalError"]
        ELSE IF ~explain /\ unique /\ HasDuplicates(db, t, k)
             THEN [db |-> db, raised |-> "IntegrityError"]
        ELSE IF explain THEN [db |-> d2, raised |-> "none"]
        ELSE [db |-> set_graph_info(d2, ginfo), raised |-> "none"]

\* ensure_graph_index without its tests of explain
ensure_graph_index_executing(db, t, col, unique, explain) ==
    LET info == get_graph_info(db, t)
        k == ColumnPos(info.header, col)
        oldsize == get_db_size(db)
        d2 == Analyze(CreateIndex(db, t, col))
        idxsize == get_db_size(d2) - oldsize
        ginfo == [get_graph_info(d2, t) EXCEPT !.size = @ + idxsize]
    IN  IF info = None THEN [db |-> db, raised |-> "AttributeError"]
        ELSE IF k = 0 THEN [db |-> db, raised |-> "KeyError"]
        ELSE IF has_index(db, t, col) THEN [db |-> db, raised |-> "none"]
        ELSE IF has_table(db, get_index_name(t, col))
             THEN [db |-> db, raised |-> "OperationalError"]
        ELSE IF unique /\ HasDuplicates(db, t, k)
             THEN [db |-> db, raised |-> "IntegrityError"]
        ELSE [db |-> set_graph_info(d2, ginfo), raised |-> "none"]

\* ensure_graph_index; CREATE INDEX raises OperationalError when an object of
\* the index's name exists, IntegrityError when a unique index meets duplicates
ensure_graph_index(db, t, col, unique, explain) ==
    LET info == get_graph_info(db, t)
        k == ColumnPos(info.header, col)
        oldsize == get_db_size(db)
        d1 == IF explain THEN db ELSE CreateIndex(db, t, col)
        d2 == IF explain THEN d1 ELSE Analyze(d1)
        idxsize == get_db_size(d2) - oldsize
        ginfo == [get_graph_info(d2, t) EXCEPT !.size = @ + idxsize]
    IN  IF info = None THEN [db |-> db, raised |-> "AttributeError"]
        ELSE IF k = 0 THEN [db |-> db, raised |-> "KeyError"]
        ELSE IF has_index(db, t, col) THEN [db |-> db, raised |-> "none"]
        ELSE IF ~explain /\ has_table(db, get_index_name(t, col))
             THEN [db |-> db, raised |-> "OperationalError"]
        ELSE IF ~explain /\ unique /\ HasDuplicates(db, t, k)
             THEN [db |-> db, raised |-> "IntegrityError"]
        ELSE IF explain THEN [db |-> d2, raised |-> "none"]
        ELSE [db |-> set_graph_info(d2, ginfo), raised |-> "none"]

(***************************************************************************)
(* The query for a one-edge match pattern (n1)-[]->(n2).  The translator   *)
(* (kgtk/kypher/query.py) is modelled from its specification.              *)
(***************************************************************************)
\* the variable names of the two endpoints; "" is an anonymous node
Patterns == [n1 : {"a"}, n2 : {"a", "b"}]

\* SQL equality: NULL equals nothing
SqlEq(x, y) == x # NULL /\ y # NULL /\ x = y

\* a translator that emits no restriction for a repeated variable
TranslateNoJoin(pattern) == {}

\* the restrictions the translator emits: node1 = node2 when the same
\* variable names both endpoints
Translate(pattern) ==
    IF pattern.n1 # "" /\ pattern.n1 = pattern.n2 THEN {<<"node1", "node2">>} ELSE {}

\* SELECT * FROM <table> WHERE <restrictions>
Execute(db, t, restrictions) ==
    LET header == (CHOOSE m \in db.master : m.name = t).cols
        Keep(r) == \A e \in restrictions :
                       SqlEq(r[ColumnPos(header, e[1])], r[ColumnPos(header, e[2])])
    IN  SelectSeq(db.rows[t], Keep)

(***************************************************************************)
(* RETURN lists with aggregates.  An item is a column of the matched edge  *)
(* or a function applied to one.                                           *)
(***************************************************************************)
AGGREGATE_FUNCTIONS == {"AVG", "COUNT", "GROUP_CONCAT", "MAX", "MIN", "SUM", "TOTAL"}

\* str.upper on the function names a query uses
Upper(name) ==
    CASE name \in {"max", "Max", "MAX"} -> "MAX"
      [] OTHER -> name

\* is_aggregate_function
is_aggregate_function(name) == Upper(name) \in AGGREGATE_FUNCTIONS

\* the items of a RETURN list: fn is "" for a plain column
ReturnItems == [fn : {"", "max", "MAX"}, col : {"node1", "node2"}]
ReturnLists == {<<x, y>> : x, y \in ReturnItems}

IsAgg(item) == item.fn # "" /\ is_aggregate_function(item.fn)

\* the positions of the GROUP BY the translator emits, as the tests of the
\* driver fix it: the plain items that stand before the last aggregate; no
\* GROUP BY when no plain item stands before an aggregate
GroupBy(items) ==
    LET aggs == {i \in 1..Len(items) : IsAgg(items[i])}
        regs == {i \in 1..Len(items) : ~IsAgg(items[i])}
        last_agg == IF aggs = {} THEN 0
                    ELSE CHOOSE i \in aggs : \A j \in aggs : j <= i
    IN  {i \in regs : i < last_agg}

\* the order of the values of a column: NULL before "a" before "b"
Rank(v) == CASE v = NULL -> 0 [] v = "a" -> 1 [] v = "b" -> 2 [] OTHER -> 3

\* the rows of rs that agree with row r on the grouping columns
GroupOf(rs, r, items, header, keys) ==
    SelectSeq(rs, LAMBDA x : \A i \in keys :
        x[ColumnPos(header, items[i].col)] = r[ColumnPos(header, items[i].col)])

\* the first row of a group that holds the largest value of a column
TopRow(g, k) ==
    g[CHOOSE i \in 1..Len(g) :
        /\ \A j \in 1..Len(g) : Rank(g[j][k]) <= Rank(g[i][k])
        /\ \A j \in 1..(i - 1) : Rank(g[j][k]) < Rank(g[i][k])]

\* one output row of SQLite for a group: max(col) is the largest value of the
\* group, a bare column is taken from the row that holds the maximum
GroupRow(g, items, header) ==
    LET aggs == {i \in 1..Len(items) : items[i].fn # ""}
        first == CHOOSE i \in aggs : \A j \in aggs : i <= j
        top == TopRow(g, ColumnPos(header, items[first].col))
    IN  [i \in 1..Len(items) |->
            IF items[i].fn # ""
            THEN TopRow(g, ColumnPos(header, items[i].col))[ColumnPos(header, items[i].col)]
            ELSE top[ColumnPos(header, items[i].col)]]

RECURSIVE Groups(_, _, _, _, _)
\* the groups of rs in the order of their first rows
Groups(rs, all, items, header, keys) ==
    IF rs = <<>> THEN <<>>
    ELSE LET g == GroupOf(all, Head(rs), items, header, keys)
         IN  IF ~\E i \in 1..(Len(all) - Len(rs)) :
                     GroupOf(all, all[i], items, header, keys) = g
             THEN <<g>> \o Groups(Tail(rs), all, items, header, keys)
             ELSE Groups(Tail(rs), all, items, header, keys)

\* SELECT <items> FROM <table> [GROUP BY <keys>]: without an aggregate one
\* output row per row; with aggregates and no GROUP BY one row for the table
ExecuteReturn(db, t, items, keys) ==
    LET header == (CHOOSE m \in db.master : m.name = t).cols
        rs == db.rows[t]
        gs == Groups(rs, rs, items, header, keys)
    IN  IF \A i \in 1..Len(items) : items[i].fn = ""
        THEN [r \in 1..Len(rs) |->
                 [i \in 1..Len(items) |-> rs[r][ColumnPos(header, items[i].col)]]]
        ELSE [n \in 1..Len(gs) |-> GroupRow(gs[n], items, header)]

(***************************************************************************)
(* RETURN * and the result header.  The MATCH pattern is (x)-[r]->(y) with *)
(* any of its three variables left anonymous.                              *)
(***************************************************************************)
\* the named variables of the pattern, in textual order
MatchVariables ==
    {<<"x">>, <<"r">>, <<"y">>, <<"x", "r">>, <<"x", "y">>, <<"r", "y">>,
     <<"x", "r", "y">>}

\* the columns a variable stands for: a node variable is the column of its
\* end of the edge, the relationship variable every column of the table
Expansion(v, header) ==
    CASE v = "x" -> <<"node1">>
      [] v = "y" -> <<"node2">>
      [] OTHER -> header

RECURSIVE Expansions(_, _)
Expansions(vs, header) ==
    IF vs = <<>> THEN <<>>
    ELSE Expansion(Head(vs), header) \o Expansions(Tail(vs), header)

\* a column name of the result: <<name, 0>> is name, <<name, k>> is name.k
RECURSIVE Suffixed(_, _)
\* the header numbering every occurrence of a name, the first one too
SuffixedFromFirst(names, seen) ==
    IF names = <<>> THEN <<>>
    ELSE LET k == Len(SelectSeq(seen, LAMBDA n : n = Head(names)))
         IN  <<<<Head(names), k + 1>>>> \o Suffixed(Tail(names), Append(seen, Head(names)))

\* the names of the result columns: a name that has been emitted k times
\* before is emitted with the suffix .k
Suffixed(names, seen) ==
    IF names = <<>> THEN <<>>
    ELSE LET k == Len(SelectSeq(seen, LAMBDA n : n = Head(names)))
         IN  <<<<Head(names), k>>>> \o Suffixed(Tail(names), Append(seen, Head(names)))

\* query.result_header for RETURN *
result_header(vs, header) == Suffixed(Expansions(vs, header), <<>>)

\* the rows of RETURN *: for every row of the table the values of the columns
ExecuteStar(db, t, vs) ==
    LET header == (CHOOSE m \in db.master : m.name = t).cols
        names == Expansions(vs, header)
    IN  [r \in 1..Len(db.rows[t]) |->
            [i \in 1..Len(names) |-> db.rows[t][r][ColumnPos(header, names[i])]]]

(***************************************************************************)
(* The operations of the store as steps.                                   *)
(***************************************************************************)
Install(db) ==
    /\ master' = db.master
    /\ rows' = db.rows
    /\ fileinfo' = db.fileinfo
    /\ graphinfo' = db.graphinfo
    /\ txn' = db.txn

\* call: the operation, the case it met (pre), the path it took (via), the
\* exception it raised and the rows it returned
NoCall == [op |-> "init", pre |-> "none", via |-> "none", raised |-> "none",
           out |-> <<>>]

\* the input files as they are found and the store as __init__ leaves it
Constructed ==
    /\ files \in [Files -> [rows : Contents, modtime : {1, 2}]]
    /\ \A f \in Files : files[f].rows \in ContentsOf(f) /\ files[f].modtime \in TimesOf(f)
    /\ master = {}
    /\ rows = <<>>
    /\ fileinfo = {}
    /\ graphinfo = {}
    /\ txn = NoTxn

Init ==
    /\ Constructed
    /\ call = NoCall

\* the environment rewrites an input file
WriteFile(f, data, mt) ==
    /\ files[f] # [rows |-> data, modtime |-> mt]
    /\ files' = [files EXCEPT ![f] = [rows |-> data, modtime |-> mt]]
    /\ call' = [NoCall EXCEPT !.op = "write_file"]
    /\ UNCHANGED <<master, rows, fileinfo, graphinfo, txn>>

AddGraph(p, engine, now) ==
    /\ has_graph(DB, p) \/ NewGraphId(BeforeImport(DB, p)) <= MaxTables
    /\ LET r == add_graph(DB, p, engine, now)
       IN  /\ Install(r.db)
           /\ call' = [NoCall EXCEPT !.op = "add_graph",
                           !.pre = IF has_graph(DB, p) THEN "fresh"
                                   ELSE IF get_file_info(DB, p) # None THEN "stale"
                                   ELSE "new",
                           !.via = r.via, !.raised = r.raised]
    /\ UNCHANGED files

DropGraphCall(t) ==
    /\ Install(drop_graph(DB, t))
    /\ call' = [NoCall EXCEPT !.op = "drop_graph",
                    !.pre = IF \E m \in master : m.tbl_name = t /\ m.type = "index"
                            THEN "indexed"
                            ELSE IF has_table(DB, t) THEN "present" ELSE "absent"]
    /\ UNCHANGED files

\* the column the driver asks an index for
IndexColumns == {"node1"}

EnsureGraphIndex(t, col, unique, explain) ==
    /\ LET r == ensure_graph_index(DB, t, col, unique, explain)
       IN  /\ Install(r.db)
           /\ call' = [NoCall EXCEPT !.op = "ensure_graph_index",
                           !.pre = IF has_index(DB, t, col) THEN "indexed" ELSE "missing",
                           !.via = IF explain THEN "explain" ELSE "none",
                           !.raised = r.raised]
    /\ UNCHANGED files

\* the driver's query over the graph of an imported file
Query(p, pattern) ==
    /\ get_file_info(DB, p) # None
    /\ get_file_info(DB, p).graph \in DOMAIN rows
    /\ call' = [NoCall EXCEPT !.op = "query", !.pre = get_file_info(DB, p).graph,
                    !.via = pattern,
                    !.out = Execute(DB, get_file_info(DB, p).graph, Translate(pattern))]
    /\ UNCHANGED <<files, master, rows, fileinfo, graphinfo, txn>>

\* the driver's query (x)-[r]->(y) RETURN <items> over an imported file
QueryReturn(p, items) ==
    /\ get_file_info(DB, p) # None
    /\ get_file_info(DB, p).graph \in DOMAIN rows
    /\ rows[get_file_info(DB, p).graph] # <<>>
    /\ call' = [NoCall EXCEPT !.op = "return", !.pre = get_file_info(DB, p).graph,
                    !.via = items,
                    !.out = ExecuteReturn(DB, get_file_info(DB, p).graph, items,
                                          GroupBy(items))]
    /\ UNCHANGED <<files, master, rows, fileinfo, graphinfo, txn>>

\* run without --explain for RETURN *: the header line unless --no-header,
\* then the rows
QueryStar(p, vs, no_header) ==
    /\ get_file_info(DB, p) # None
    /\ get_file_info(DB, p).graph \in DOMAIN rows
    /\ LET t == get_file_info(DB, p).graph
           header == (CHOOSE m \in master : m.name = t).cols
       IN  call' = [NoCall EXCEPT !.op = "return_star", !.pre = t,
                        !.via = [match |-> vs, no_header |-> no_header],
                        !.out = (IF no_header THEN <<>>
                                 ELSE <<result_header(vs, header)>>)
                                \o ExecuteStar(DB, t, vs)]
    /\ UNCHANGED <<files, master, rows, fileinfo, graphinfo, txn>>

\* close: closing the connection discards the open transaction
Close ==
    /\ Install(Rollback(DB))
    /\ call' = [NoCall EXCEPT !.op = "close"]
    /\ UNCHANGED files

Next ==
    \/ \E f \in Files : \E data \in ContentsOf(f), mt \in TimesOf(f) : WriteFile(f, data, mt)
    \/ \E p \in Paths, engine \in Engines, now \in Clock : AddGraph(p, engine, now)
    \/ \E t \in GraphNames : DropGraphCall(t)
    \/ \E t \in GraphNames, col \in IndexColumns, unique, explain \in BOOLEAN :
           EnsureGraphIndex(t, col, unique, explain)
    \/ Close

Spec == Init /\ [][Next]_vars

(***************************************************************************)
(* run of cli/query.py as one step.  fault is the place where the          *)
(* environment makes the run fail; an import fails as its engine decides.  *)
(***************************************************************************)
RunFaults == {"none", "no_inputs", "open_store", "execute", "write_header",
              "write_rows", "flush", "sigpipe"}

\* the faults that are a broken pipe on the output
WriteFaults == {"write_header", "write_rows", "flush"}

\* the exception a fault raises where it happens, and its message
ExceptionOf(fault) ==
    CASE fault = "no_inputs" -> "KGTKException"
      [] fault = "open_store" -> "OperationalError"
      [] fault = "execute" -> "OperationalError"
      [] fault \in WriteFaults -> "BrokenPipeError"
      [] fault = "sigpipe" -> "SignalException_SIGPIPE"
      [] OTHER -> "none"

MessageOf(fault) ==
    CASE fault = "no_inputs" -> "At least one named input file needs to be supplied"
      [] fault = "open_store" -> "unable to open database file"
      [] fault = "execute" -> "no such column"
      [] fault \in WriteFaults -> "[Errno 32] Broken pipe"
      [] fault = "sigpipe" -> "SIGPIPE"
      [] OTHER -> "none"

\* what the finally clause raises when SqliteStore(...) has raised: store
\* has no value when store.close() is evaluated
UnboundStore == [type |-> "UnboundLocalError",
                 msg |-> "local variable 'store' referenced before assignment"]

\* the except clauses of run: what the caller of run sees for exception e
OuterHandlers(e) ==
    IF e.type = "none" THEN [raised |-> "none", error |-> <<>>]
    ELSE IF e.type = "SignalException_SIGPIPE" THEN [raised |-> "none", error |-> <<>>]
    ELSE IF e.type = "KGTKException" THEN [raised |-> "KGTKException", error |-> <<e.msg>>]
    ELSE [raised |-> "KGTKException", error |-> <<e.msg, "\n">>]

\* the column the run asks an index for
RunIndexColumn == "node1"

\* the one element of a set of one element
The(S) == CHOOSE x \in S : TRUE

\* what the inner try ends with: the database, the exception, the lines
\* written, whether the query was executed, what the import raised
Ended(d, type, msg, written, executed, import) ==
    [db |-> d, e |-> [type |-> type, msg |-> msg], written |-> written,
     executed |-> executed, import |-> import]

\* the inner try after the index request i on table t: explains, or executes
\* and writes
AfterIndex(i, t, explain, no_header, fault) ==
    LET header == (CHOOSE m \in i.db.master : m.name = t).cols
        result == Execute(i.db, t, {})
        lines == IF explain THEN <<"explanation">>
                 ELSE (IF no_header THEN <<>> ELSE <<header>>) \o result
    IN  IF i.raised # "none" THEN Ended(i.db, i.raised, i.raised, <<>>, FALSE, "none")
        ELSE IF fault \in {"execute", "sigpipe"}
             THEN Ended(i.db, ExceptionOf(fault), MessageOf(fault), <<>>, FALSE, "none")
        ELSE IF fault = "write_header"
             THEN Ended(i.db, ExceptionOf(fault), MessageOf(fault), <<>>, ~explain, "none")
        ELSE IF fault = "write_rows"
             THEN Ended(i.db, ExceptionOf(fault), MessageOf(fault),
                        IF explain \/ no_header THEN <<>> ELSE <<header>>, ~explain, "none")
        ELSE IF fault = "flush"
             THEN Ended(i.db, ExceptionOf(fault), MessageOf(fault), lines, ~explain, "none")
        ELSE Ended(i.db, "none", "none", lines, ~explain, "none")

\* the inner try after the import a of input p: asks for the index
AfterImport(a, p, explain, no_header, fault) ==
    IF a.raised # "none" THEN Ended(a.db, a.raised, a.raised, <<>>, FALSE, a.raised)
    ELSE The({AfterIndex(i, t, explain, no_header, fault) :
                 t \in {get_file_info(a.db, p).graph},
                 i \in {ensure_graph_index(a.db, get_file_info(a.db, p).graph,
                                           RunIndexColumn, FALSE, explain)}})

\* the body of the inner try once the store exists: imports the input, asks
\* for the index, then explains or executes and writes
RunBody(db, p, engine, now, explain, no_header, fault) ==
    The({AfterImport(a, p, explain, no_header, fault) :
            a \in {add_graph(db, p, engine, now)}})

\* the finally clause and the except clauses after the inner try ended as b
AfterBody(b) ==
    [db |-> Rollback(b.db), written |-> b.written, executed |-> b.executed,
     closed |-> TRUE, import |-> b.import,
     raised |-> OuterHandlers(b.e).raised, error |-> OuterHandlers(b.e).error]

\* run: [db, raised, error, written, executed, closed, import]
run(db, p, engine, now, explain, no_header, fault) ==
    IF fault = "no_inputs"
    THEN [db |-> db, written |-> <<>>, executed |-> FALSE, closed |-> FALSE,
          import |-> "none",
          raised |-> "KGTKException", error |-> <<MessageOf(fault)>>]
    ELSE IF fault = "open_store"
    THEN [db |-> db, written |-> <<>>, executed |-> FALSE, closed |-> FALSE,
          import |-> "none",
          raised |-> OuterHandlers(UnboundStore).raised,
          error |-> OuterHandlers(UnboundStore).error]
    ELSE The({AfterBody(b) :
                 b \in {RunBody(db, p, engine, now, explain, no_header, fault)}})

\* the options of a run and the fault it meets: the header is written
\* only without explain and no_header, a shell command runs only with explain
RunOptions ==
    {o \in [explain : BOOLEAN, no_header : BOOLEAN, fault : RunFaults] :
        /\ o.explain => ~o.no_header
        /\ o.fault \in {"no_inputs", "open_store", "execute", "flush"} => ~o.no_header
        /\ o.fault \in {"no_inputs", "open_store", "flush"} => ~o.explain
        /\ o.fault = "write_header" => ~o.explain /\ ~o.no_header
        /\ o.fault = "sigpipe" => o.explain}

\* the input files and import engines of the runs
RunInputs == {"f1", "f2"}
RunEngines == {"ok", "rejected"}

Run(p, engine, now, explain, no_header, fault) ==
    /\ has_graph(DB, p) \/ NewGraphId(BeforeImport(DB, p)) <= MaxTables
    /\ \E r \in {run(DB, p, engine, now, explain, no_header, fault)} :
           /\ Install(r.db)
           /\ call' = [NoCall EXCEPT !.op = "run", !.pre = fault,
                           !.via = [explain |-> explain, no_header |-> no_header,
                                    input |-> p, import |-> r.import],
                           !.raised = r.raised,
                           !.out = [error |-> r.error, written |-> r.written,
                                    executed |-> r.executed, closed |-> r.closed]]
    /\ UNCHANGED files

\* the command: rewritten files, runs, and index requests of other runs
NextRun ==
    \/ \E f \in Files : \E data \in ContentsOf(f), mt \in TimesOf(f) : WriteFile(f, data, mt)
    \/ \E p \in RunInputs, engine \in RunEngines, now \in Clock, o \in RunOptions :
           Run(p, engine, now, o.explain, o.no_header, o.fault)
    \/ \E t \in GraphNames, col \in IndexColumns, unique, explain \in BOOLEAN :
           EnsureGraphIndex(t, col, unique, explain)

SpecRun == Init /\ [][NextRun]_vars

\* the driver: imports, rewritten files and queries
NextQuery ==
    \/ \E f \in Files : \E data \in ContentsOf(f), mt \in TimesOf(f) : WriteFile(f, data, mt)
    \/ \E p \in Paths, engine \in Engines, now \in Clock : AddGraph(p, engine, now)
    \/ \E p \in Paths, pattern \in Patterns : Query(p, pattern)
    \/ \E p \in Paths, items \in ReturnLists : QueryReturn(p, items)
    \/ \E p \in Paths, vs \in MatchVariables, no_header \in BOOLEAN :
           QueryStar(p, vs, no_header)

SpecQuery == Init /\ [][NextQuery]_vars

(***************************************************************************)
(* SQLite user functions.  A value handed to a function is a string, given *)
(* as the sequence of its tokens, or a number.                             *)
(***************************************************************************)
MaxLen == 2

Text(s) == [type |-> "str", s |-> s]
Number(s) == [type |-> "int", s |-> s]
Null == [type |-> "null", s |-> <<>>]

Alphabet == {"a", "b"}
Words == UNION {[1..n -> Alphabet] : n \in 0..MaxLen}

\* regular expressions: a character, r|r, rr, r?, r*
Chr(c) == [op |-> "chr", c |-> c, args |-> <<>>]
Alt(l, r) == [op |-> "alt", c |-> "", args |-> <<l, r>>]
Cat(l, r) == [op |-> "cat", c |-> "", args |-> <<l, r>>]
Opt(r) == [op |-> "opt", c |-> "", args |-> <<r>>]
Star(r) == [op |-> "star", c |-> "", args |-> <<r>>]
Atoms == {Chr(c) : c \in Alphabet}
Simple ==
    Atoms \cup {Opt(r) : r \in Atoms} \cup {Star(r) : r \in Atoms}
          \cup {Cat(l, r) : l, r \in Atoms}
Regexes ==
    Simple \cup {Alt(l, r) : l, r \in Simple} \cup {Cat(l, r) : l, r \in Simple}

RECURSIVE Ends(_, _, _), ThenAll(_, _, _), ThenStar(_, _, _)
\* Pattern.match from offset i: the offsets at which a match of r can end, in
\* the order the backtracking matcher tries them (left alternative first,
\* greedy quantifiers longest first)
Ends(r, s, i) ==
    CASE r.op = "chr" -> IF i < Len(s) /\ s[i + 1] = r.c THEN <<i + 1>> ELSE <<>>
      [] r.op = "alt" -> Ends(r.args[1], s, i) \o Ends(r.args[2], s, i)
      [] r.op = "cat" -> ThenAll(r.args[2], s, Ends(r.args[1], s, i))
      [] r.op = "opt" -> Ends(r.args[1], s, i) \o <<i>>
      [] r.op = "star" ->
            ThenStar(r, s, SelectSeq(Ends(r.args[1], s, i), LAMBDA e : e > i)) \o <<i>>

ThenAll(r, s, es) ==
    IF es = <<>> THEN <<>>
    ELSE Ends(r, s, Head(es)) \o ThenAll(r, s, Tail(es))

ThenStar(r, s, es) ==
    IF es = <<>> THEN <<>>
    ELSE Ends(r, s, Head(es)) \o ThenStar(r, s, Tail(es))

\* kgtk_regex requiring a match to exist, wherever it ends
kgtk_regex_prefix(x, regex) ==
    x.type = "str" /\ Ends(regex, x.s, 0) # <<>>

\* kgtk_regex: the first match of the pattern at the start of x ends at len(x)
kgtk_regex(x, regex) ==
    LET m == IF x.type = "str" THEN Ends(regex, x.s, 0) ELSE <<>>
    IN  m # <<>> /\ Head(m) = Len(x.s)

(***************************************************************************)
(* Literals.  The two patterns of KgtkValue are taken from the literal     *)
(* syntax: ^year[-month[-day]][Thour[:minutes[:seconds]][zone]][/precision] *)
(* and 'text'@lang[-suffix].  A group is present with its tokens, or absent.*)
(***************************************************************************)
Group(s) == [present |-> TRUE, s |-> s]
Absent == [present |-> FALSE, s |-> <<>>]
Maybe(t) == {Group(<<t>>), Absent}
Tokens(prefix, g) == IF g.present THEN prefix \o g.s ELSE <<>>

\* the ways the optional components of a date literal can be filled
DateFields ==
    {f \in [month : Maybe("10"), day : Maybe("30"), hour : Maybe("11"),
            minutes : Maybe("12"), seconds : Maybe("13"), zone : Maybe("Z"),
            precision : Maybe("9")] :
        /\ f.day.present => f.month.present
        /\ f.minutes.present => f.hour.present
        /\ f.seconds.present => f.minutes.present
        /\ f.zone.present => f.hour.present}

DateOf(f) ==
    <<"2020">> \o Tokens(<<"-">>, f.month) \o Tokens(<<"-">>, f.day)
TimeOf(f) ==
    Tokens(<<>>, f.hour) \o Tokens(<<":">>, f.minutes)
        \o Tokens(<<":">>, f.seconds) \o Tokens(<<>>, f.zone)
DateAndTimeOf(f) ==
    DateOf(f) \o (IF f.hour.present THEN <<"T">> \o TimeOf(f) ELSE <<>>)
DateLiteral(f) == <<"^">> \o DateAndTimeOf(f) \o Tokens(<<"/">>, f.precision)

\* the groups of a match of the date pattern
DateGroups(f) ==
    [date_and_time |-> Group(DateAndTimeOf(f)), date |-> Group(DateOf(f)),
     time |-> IF f.hour.present THEN Group(TimeOf(f)) ELSE Absent,
     year |-> Group(<<"2020">>), month |-> f.month, day |-> f.day,
     hour |-> f.hour, minutes |-> f.minutes, seconds |-> f.seconds,
     zone |-> f.zone, precision |-> f.precision]

NoMatch == [matched |-> FALSE]

\* KgtkValue.lax_date_and_times_re.match
LaxDateMatch(s) ==
    IF \E f \in DateFields : DateLiteral(f) = s
    THEN [matched |-> TRUE,
          group |-> DateGroups(CHOOSE f \in DateFields : DateLiteral(f) = s)]
    ELSE NoMatch

LqFields == [suffix : Maybe("x")]
LangSuffixOf(f) == <<"en">> \o Tokens(<<"-">>, f.suffix)
LqLiteral(f) == <<"'", "hi", "'", "@">> \o LangSuffixOf(f)
LqGroups(f) ==
    [text |-> Group(<<"hi">>), lang |-> Group(<<"en">>),
     lang_suffix |-> Group(LangSuffixOf(f)),
     suffix |-> IF f.suffix.present THEN Group(<<"-">> \o f.suffix.s) ELSE Absent]

\* KgtkValue.lax_language_qualified_string_re.match
LaxLqMatch(s) ==
    IF \E f \in LqFields : LqLiteral(f) = s
    THEN [matched |-> TRUE,
          group |-> LqGroups(CHOOSE f \in LqFields : LqLiteral(f) = s)]
    ELSE NoMatch

Returned(v) == [raised |-> "none", value |-> v]
Raised(e) == [raised |-> e, value |-> Null]

\* str + m.group(..) + str: a TypeError when the group did not take part
Enclose(before, g, after) ==
    IF g.present THEN Returned(Text(before \o g.s \o after)) ELSE Raised("TypeError")
\* int(m.group(..)): a TypeError when the group did not take part
ToInt(g) == IF g.present THEN Returned(Number(g.s)) ELSE Raised("TypeError")
\* m.group(..) returned as it is: None when the group did not take part
Plain(g) == IF g.present THEN Returned(Text(g.s)) ELSE Returned(Null)

kgtk_lqstring_text(x) ==
    LET m == LaxLqMatch(x.s) IN
    IF x.type = "str" /\ m.matched THEN Enclose(<<"\"">>, m.group.text, <<"\"">>)
    ELSE Returned(Null)
kgtk_lqstring_lang(x) ==
    LET m == LaxLqMatch(x.s) IN
    IF x.type = "str" /\ m.matched THEN Plain(m.group.lang) ELSE Returned(Null)
kgtk_lqstring_lang_suffix(x) ==
    LET m == LaxLqMatch(x.s) IN
    IF x.type = "str" /\ m.matched THEN Plain(m.group.lang_suffix) ELSE Returned(Null)
kgtk_lqstring_suffix(x) ==
    LET m == LaxLqMatch(x.s) IN
    IF x.type = "str" /\ m.matched THEN Plain(m.group.suffix) ELSE Returned(Null)

kgtk_date_date(x) ==
    LET m == LaxDateMatch(x.s) IN
    IF x.type = "str" /\ m.matched THEN Enclose(<<"^">>, m.group.date, <<>>)
    ELSE Returned(Null)
kgtk_date_time(x) ==
    LET m == LaxDateMatch(x.s) IN
    IF x.type = "str" /\ m.matched THEN Enclose(<<"^">>, m.group.time, <<>>)
    ELSE Returned(Null)
kgtk_date_and_time(x) ==
    LET m == LaxDateMatch(x.s) IN
    IF x.type = "str" /\ m.matched THEN Enclose(<<"^">>, m.group.date_and_time, <<>>)
    ELSE Returned(Null)
kgtk_date_year(x) ==
    LET m == LaxDateMatch(x.s) IN
    IF x.type = "str" /\ m.matched THEN ToInt(m.group.year) ELSE Returned(Null)
kgtk_date_month(x) ==
    LET m == LaxDateMatch(x.s) IN
    IF x.type = "str" /\ m.matched THEN ToInt(m.group.month) ELSE Returned(Null)
kgtk_date_day(x) ==
    LET m == LaxDateMatch(x.s) IN
    IF x.type = "str" /\ m.matched THEN ToInt(m.group.day) ELSE Returned(Null)
kgtk_date_hour(x) ==
    LET m == LaxDateMatch(x.s) IN
    IF x.type = "str" /\ m.matched THEN ToInt(m.group.hour) ELSE Returned(Null)
kgtk_date_minutes(x) ==
    LET m == LaxDateMatch(x.s) IN
    IF x.type = "str" /\ m.matched THEN ToInt(m.group.minutes) ELSE Returned(Null)
kgtk_date_seconds(x) ==
    LET m == LaxDateMatch(x.s) IN
    IF x.type = "str" /\ m.matched THEN ToInt(m.group.seconds) ELSE Returned(Null)
kgtk_date_zone(x) ==
    LET m == LaxDateMatch(x.s) IN
    IF x.type = "str" /\ m.matched THEN Enclose(<<"\"">>, m.group.zone, <<"\"">>)
    ELSE Returned(Null)
kgtk_date_precision(x) ==
    LET m == LaxDateMatch(x.s) IN
    IF x.type = "str" /\ m.matched THEN ToInt(m.group.precision) ELSE Returned(Null)

LqAccessors ==
    {"kgtk_lqstring_text", "kgtk_lqstring_lang", "kgtk_lqstring_lang_suffix",
     "kgtk_lqstring_suffix"}
DateAccessors ==
    {"kgtk_date_date", "kgtk_date_time", "kgtk_date_and_time", "kgtk_date_year",
     "kgtk_date_month", "kgtk_date_day", "kgtk_date_hour", "kgtk_date_minutes",
     "kgtk_date_seconds", "kgtk_date_zone", "kgtk_date_precision"}
Accessors == LqAccessors \cup DateAccessors

\* the function registered under a name, applied
Apply(fn, x) ==
    CASE fn = "kgtk_lqstring_text" -> kgtk_lqstring_text(x)
      [] fn = "kgtk_lqstring_lang" -> kgtk_lqstring_lang(x)
      [] fn = "kgtk_lqstring_lang_suffix" -> kgtk_lqstring_lang_suffix(x)
      [] fn = "kgtk_lqstring_suffix" -> kgtk_lqstring_suffix(x)
      [] fn = "kgtk_date_date" -> kgtk_date_date(x)
      [] fn = "kgtk_date_time" -> kgtk_date_time(x)
      [] fn = "kgtk_date_and_time" -> kgtk_date_and_time(x)
      [] fn = "kgtk_date_year" -> kgtk_date_year(x)
      [] fn = "kgtk_date_month" -> kgtk_date_month(x)
      [] fn = "kgtk_date_day" -> kgtk_date_day(x)
      [] fn = "kgtk_date_hour" -> kgtk_date_hour(x)
      [] fn = "kgtk_date_minutes" -> kgtk_date_minutes(x)
      [] fn = "kgtk_date_seconds" -> kgtk_date_seconds(x)
      [] fn = "kgtk_date_zone" -> kgtk_date_zone(x)
      [] fn = "kgtk_date_precision" -> kgtk_date_precision(x)

\* the values a query hands to kgtk_regex and to the accessors
RegexInputs == {Text(w) : w \in Words} \cup {Number(<<"5">>)}
LiteralInputs ==
    {Text(DateLiteral(f)) : f \in DateFields} \cup {Text(LqLiteral(f)) : f \in LqFields}
        \cup {Text(<<"a">>), Text(<<"^">>), Number(<<"5">>), Null}

\* ---- kgtk_stringify and kgtk_unstringify ----

Quote == "\""
StringChars == {"a", Quote}
Strings == UNION {[1..n -> StringChars] : n \in 0..(MaxLen + 1)}

\* str.startswith and str.endswith for a one-character argument
startswith(s, ch) == Len(s) > 0 /\ s[1] = ch
endswith(s, ch) == Len(s) > 0 /\ s[Len(s)] = ch

\* str.replace(ch, with) for a one-character ch
RECURSIVE replace(_, _, _)
replace(s, ch, with) ==
    IF s = <<>> THEN <<>>
    ELSE (IF Head(s) = ch THEN with ELSE <<Head(s)>>) \o replace(Tail(s), ch, with)

\* sql_quote_ident: '"' + ident.replace('"', '""') + '"'
sql_quote_ident(ident) == <<Quote>> \o replace(ident, Quote, <<Quote, Quote>>) \o <<Quote>>

\* x[1:-1]
Slice1m1(s) == IF Len(s) < 2 THEN <<>> ELSE SubSeq(s, 2, Len(s) - 1)

kgtk_stringify(x) ==
    IF x.type = "str" /\ ~startswith(x.s, Quote) /\ ~endswith(x.s, Quote)
    THEN Text(sql_quote_ident(x.s))
    ELSE x

kgtk_unstringify(x) ==
    IF x.type = "str" /\ startswith(x.s, Quote) /\ endswith(x.s, Quote)
    THEN Text(Slice1m1(x.s))
    ELSE x

StringifyInputs == {Text(w) : w \in Strings} \cup {Number(<<"5">>), Null}

\* ---- parameter specs of the command line (cli/query.py) ----

\* the characters of a parameter spec
ParaChars == {"n", "=", "v"}
PSpecs == UNION {[1..n -> ParaChars] : n \in 0..(MaxLen + 1)}
SpecLists(S, n) == UNION {[1..k -> S] : k \in 0..n}

\* str.find: the position of the first ch of s, 0 when there is none
\* (positions count from 1 here, from 0 with -1 for none in the source)
find(s, ch) ==
    IF \E i \in 1..Len(s) : s[i] = ch
    THEN CHOOSE i \in 1..Len(s) : s[i] = ch /\ \A j \in 1..(i - 1) : s[j] # ch
    ELSE 0

\* string parameters are wrapped in double quotes
dwim_to_string_para(value) == <<"\"">> \o value \o <<"\"">>

\* language-qualified parameters are wrapped in single quotes before the
\* language tag
dwim_to_lqstring_para(value) ==
    LET at == find(value, "@")
    IN  IF at = 0 THEN <<"'">> \o value \o <<"'">>
        ELSE <<"'">> \o SubSeq(value, 1, at - 1) \o <<"'">>
                 \o SubSeq(value, at, Len(value))

\* parameters[name] = value
Bound(parameters, name, value) ==
    [k \in DOMAIN parameters \cup {name} |->
        IF k = name THEN value ELSE parameters[k]]

\* the value is cut after the last '=' of the spec
ParaValueAfterLastEq(ptype, pspec) ==
    LET last == CHOOSE i \in 0..Len(pspec) :
                    /\ i > 0 => pspec[i] = "="
                    /\ \A j \in (i + 1)..Len(pspec) : pspec[j] # "="
        value == SubSeq(pspec, last + 1, Len(pspec))
    IN  IF ptype = "string" THEN dwim_to_string_para(value)
        ELSE IF ptype = "lqstring" THEN dwim_to_lqstring_para(value)
        ELSE value

\* the value one spec binds, by its type
ParaValue(ptype, pspec) ==
    LET value == SubSeq(pspec, find(pspec, "=") + 1, Len(pspec))
    IN  IF ptype = "string" THEN dwim_to_string_para(value)
        ELSE IF ptype = "lqstring" THEN dwim_to_lqstring_para(value)
        ELSE value

\* the inner loop of parse_query_parameters over the specs of one type;
\* acc is [raised, value] with the dictionary built so far
RECURSIVE ParseSpecs(_, _, _)
ParseSpecs(acc, ptype, specs) ==
    IF acc.raised # "none" \/ specs = <<>> THEN acc
    ELSE LET pspec == Head(specs)
             eqpos == find(pspec, "=")
         IN  IF eqpos = 0 THEN [raised |-> "KGTKException", value |-> acc.value]
             ELSE ParseSpecs(
                      [acc EXCEPT !.value = Bound(@, SubSeq(pspec, 1, eqpos - 1),
                                                  ParaValue(ptype, pspec))],
                      ptype, Tail(specs))

parse_query_parameters(regular, string, lqstring) ==
    ParseSpecs(ParseSpecs(ParseSpecs([raised |-> "none", value |-> <<>>],
                                     "regular", regular),
                          "string", string),
               "lqstring", lqstring)

ParaInputs ==
    [regular : SpecLists(PSpecs, 2),
     string : {<<>>, << <<"n", "=", "v">> >>, << <<"v">> >>},
     lqstring : {<<>>, << <<"v", "=", "v", "@", "n">> >>}]

(***************************************************************************)
(* KgtkJoiner (join/kgtkjoiner.py).  A file is what KgtkReader gives for   *)
(* it: its kind, its column names and its rows.  Column positions count    *)
(* from 1, 0 for a column the file has not (-1 in the source).             *)
(***************************************************************************)
EdgeHeader == <<"node1", "label", "node2">>
NodeHeader == <<"id", "name">>
EdgeRows == {<<"a", "l", "b">>, <<"b", "m", "a">>}
NodeRows == {<<"a", "x">>, <<"b", "y">>}
KgtkFiles ==
    [kind : {"edge"}, rows : SpecLists(EdgeRows, 2)]
        \cup [kind : {"node"}, rows : SpecLists(NodeRows, 2)]

column_names(kr) == IF kr.kind = "edge" THEN EdgeHeader ELSE NodeHeader
is_edge_file(kr) == kr.kind = "edge"
is_node_file(kr) == kr.kind = "node"
node1_column_idx(kr) == ColumnPos(column_names(kr), "node1")
label_column_idx(kr) == ColumnPos(column_names(kr), "label")
node2_column_idx(kr) == ColumnPos(column_names(kr), "node2")
id_column_idx(kr) == ColumnPos(column_names(kr), "id")

JoinOptions == [left_join : BOOLEAN, right_join : BOOLEAN,
                join_on_label : BOOLEAN, join_on_node2 : BOOLEAN]

\* KgtkFormat.LIST_SEPARATOR
field_separator == "|"

\* build_join_key: the key fields of the row with the separator between them
RECURSIVE build_join_key(_, _)
build_join_key(join_idx_list, row) ==
    IF join_idx_list = <<>> THEN <<>>
    ELSE IF Len(join_idx_list) = 1 THEN <<row[Head(join_idx_list)]>>
    ELSE <<row[Head(join_idx_list)], field_separator>>
             \o build_join_key(Tail(join_idx_list), row)

\* single_column_key_set and multi_column_key_set
key_set(kr, join_idx_list) ==
    {build_join_key(join_idx_list, kr.rows[i]) : i \in 1..Len(kr.rows)}

\* build_join_idx_list without join columns given on the command line
build_join_idx_list(self, kr) ==
    LET first == IF is_edge_file(kr) THEN node1_column_idx(kr) ELSE id_column_idx(kr)
        label == IF self.join_on_label THEN <<label_column_idx(kr)>> ELSE <<>>
        node2 == IF self.join_on_node2 THEN <<node2_column_idx(kr)>> ELSE <<>>
    IN  IF first = 0 THEN [raised |-> "ValueError", value |-> <<>>]
        ELSE IF self.join_on_label /\ label_column_idx(kr) = 0
             THEN [raised |-> "ValueError", value |-> <<>>]
        ELSE IF self.join_on_node2 /\ node2_column_idx(kr) = 0
             THEN [raised |-> "ValueError", value |-> <<>>]
        ELSE [raised |-> "none", value |-> <<first>> \o label \o node2]

\* extract_join_key_set: reopens the file and reads its keys
extract_join_key_set(kr, join_idx_list) ==
    IF ~is_edge_file(kr) THEN [raised |-> "ValueError", value |-> {}]
    ELSE [raised |-> "none", value |-> key_set(kr, join_idx_list)]

\* join_key_sets: all is TRUE for the outer join, which needs no key set
join_key_sets(self, left_kr, right_kr, left_idx, right_idx) ==
    LET l == extract_join_key_set(left_kr, left_idx)
        r == extract_join_key_set(right_kr, right_idx)
    IN  IF self.left_join /\ self.right_join
        THEN [raised |-> "none", all |-> TRUE, value |-> {}]
        ELSE IF self.left_join THEN [raised |-> l.raised, all |-> FALSE, value |-> l.value]
        ELSE IF self.right_join THEN [raised |-> r.raised, all |-> FALSE, value |-> r.value]
        ELSE IF l.raised # "none" THEN [raised |-> l.raised, all |-> FALSE, value |-> {}]
        ELSE IF r.raised # "none" THEN [raised |-> r.raised, all |-> FALSE, value |-> {}]
        ELSE [raised |-> "none", all |-> FALSE, value |-> l.value \cap r.value]

\* the name merge_columns gives the idx-th column of the right file (no prefix)
MappedName(left_kr, right_kr, idx) ==
    IF idx = node1_column_idx(right_kr)
    THEN (IF node1_column_idx(left_kr) > 0
          THEN column_names(left_kr)[node1_column_idx(left_kr)] ELSE "ValueError")
    ELSE IF idx = label_column_idx(right_kr) /\ label_column_idx(left_kr) > 0
         THEN column_names(left_kr)[label_column_idx(left_kr)]
    ELSE IF idx = node2_column_idx(right_kr) /\ node2_column_idx(left_kr) > 0
         THEN column_names(left_kr)[node2_column_idx(left_kr)]
    ELSE column_names(right_kr)[idx]

\* appends to names those of more that it has not yet
RECURSIVE AppendNew(_, _)
AppendNew(names, more) ==
    IF more = <<>> THEN names
    ELSE AppendNew(IF \E i \in 1..Len(names) : names[i] = Head(more)
                   THEN names ELSE Append(names, Head(more)),
                   Tail(more))

\* merge_columns: (joined_column_names, right_column_names)
merge_columns(left_kr, right_kr) ==
    LET right_column_names ==
            [idx \in 1..Len(column_names(right_kr)) |-> MappedName(left_kr, right_kr, idx)]
    IN  IF node1_column_idx(right_kr) > 0 /\ node1_column_idx(left_kr) = 0
        THEN [raised |-> "ValueError", joined |-> <<>>, right |-> <<>>]
        ELSE [raised |-> "none",
              joined |-> AppendNew(column_names(left_kr), right_column_names),
              right |-> right_column_names]

\* KgtkWriter.write with fill_missing_columns: the row under the joined
\* column names, empty where the row has no such column
Shuffled(joined, names, row) ==
    [i \in 1..Len(joined) |->
        IF ColumnPos(names, joined[i]) > 0 THEN row[ColumnPos(names, joined[i])] ELSE ""]

\* the rows of the file that process writes
Kept(kr, join_idx_list, keys, joined, names) ==
    LET Keep(row) == keys.all \/ build_join_key(join_idx_list, row) \in keys.value
        kept == SelectSeq(kr.rows, Keep)
    IN  [i \in 1..Len(kept) |-> Shuffled(joined, names, kept[i])]

\* process: [raised, printed, written]
process(self, left_kr, right_kr) ==
    LET left_idx == build_join_idx_list(self, left_kr)
        right_idx == build_join_idx_list(self, right_kr)
        keys == join_key_sets(self, left_kr, right_kr, left_idx.value, right_idx.value)
        cols == merge_columns(left_kr, right_kr)
        Return(raised, printed, written) ==
            [raised |-> raised, printed |-> printed, written |-> written]
    IN  IF ~(is_edge_file(left_kr) /\ is_edge_file(right_kr))
           /\ ~(is_node_file(left_kr) /\ is_node_file(right_kr))
        THEN Return("none", "Cannot join edge and node files.", <<>>)
        ELSE IF left_idx.raised # "none" THEN Return(left_idx.raised, "", <<>>)
        ELSE IF right_idx.raised # "none" THEN Return(right_idx.raised, "", <<>>)
        ELSE IF Len(left_idx.value) # Len(right_idx.value)
             THEN Return("none", "Exiting.", <<>>)
        ELSE IF keys.raised # "none" THEN Return(keys.raised, "", <<>>)
        ELSE IF cols.raised # "none" THEN Return(cols.raised, "", <<>>)
        ELSE Return("none", "",
                  <<cols.joined>>
                      \o Kept(left_kr, left_idx.value, keys, cols.joined, column_names(left_kr))
                      \o Kept(right_kr, right_idx.value, keys, cols.joined, cols.right))

\* SimpleJoiner.join_column_idx without a join column name: node1 of an
\* edge file, id of a node file; 0 stands for the ValueError
join_column_idx(kr) ==
    IF is_edge_file(kr) THEN node1_column_idx(kr)
    ELSE IF is_node_file(kr) THEN id_column_idx(kr)
    ELSE 0

\* SimpleJoiner.join_column_set
join_column_set(kr, idx) == {kr.rows[i][idx] : i \in 1..Len(kr.rows)}

\* SimpleJoiner.join_column_values
join_column_values(self, left_kr, right_kr) ==
    LET left_join_values == join_column_set(left_kr, join_column_idx(left_kr))
        right_join_values == join_column_set(right_kr, join_column_idx(right_kr))
    IN  IF self.left_join /\ self.right_join THEN left_join_values \cup right_join_values
        ELSE IF self.left_join THEN left_join_values
        ELSE IF self.right_join THEN right_join_values
        ELSE left_join_values \cap right_join_values

\* the calls ew.write(line) or ew.write(line, shuffle_list) that
\* SimpleJoiner.process makes for one file
SimpleKept(kr, values, shuffle_list) ==
    LET idx == join_column_idx(kr)
        Keep(line) == line[idx] \in values
        kept == SelectSeq(kr.rows, Keep)
    IN  [i \in 1..Len(kept) |-> [line |-> kept[i], shuffle_list |-> shuffle_list]]

\* SimpleJoiner.process: [raised, written]
SimpleJoiner_process(self, left_kr, right_kr) ==
    IF join_column_idx(left_kr) = 0 \/ join_column_idx(right_kr) = 0
    THEN [raised |-> "ValueError", written |-> <<>>]
    ELSE LET joined_column_values == join_column_values(self, left_kr, right_kr)
         IN  [raised |-> "none",
              written |-> SimpleKept(left_kr, joined_column_values, "none")
                            \o SimpleKept(right_kr, joined_column_values, "right")]

\* the joiner is constructed for two files
InitJoin ==
    /\ Constructed
    /\ call \in {[NoCall EXCEPT !.op = "join",
                                !.pre = [left |-> l, right |-> r], !.via = o] :
                    l \in KgtkFiles, r \in KgtkFiles, o \in JoinOptions}

Process ==
    /\ call.op = "join"
    /\ LET r == process(call.via, call.pre.left, call.pre.right)
       IN  call' = [call EXCEPT !.op = "process", !.raised = r.raised,
                                !.out = [printed |-> r.printed, written |-> r.written]]
    /\ UNCHANGED <<files, master, rows, fileinfo, graphinfo, txn>>

SimpleProcess ==
    /\ call.op = "join"
    /\ LET r == SimpleJoiner_process(call.via, call.pre.left, call.pre.right)
       IN  call' = [call EXCEPT !.op = "simple_process", !.raised = r.raised,
                                !.out = [printed |-> "", written |-> r.written]]
    /\ UNCHANGED <<files, master, rows, fileinfo, graphinfo, txn>>

NextJoin == Process \/ SimpleProcess

SpecJoin == InitJoin /\ [][NextJoin]_vars

\* the store is constructed and a query is about to evaluate one function
\* on one value
InitUdf ==
    /\ Constructed
    /\ \/ call \in {[NoCall EXCEPT !.op = "eval_regex", !.pre = x, !.via = regex] :
                        x \in RegexInputs, regex \in Regexes}
       \/ call \in {[NoCall EXCEPT !.op = "eval_accessor", !.pre = x, !.via = fn] :
                        x \in LiteralInputs, fn \in Accessors}
       \/ call \in {[NoCall EXCEPT !.op = "parse_paras", !.pre = x] : x \in ParaInputs}
       \/ call \in {[NoCall EXCEPT !.op = "eval_stringify", !.pre = x] : x \in StringifyInputs}

\* the query evaluates x =~ regex
CallRegex ==
    /\ call.op = "eval_regex"
    /\ call' = [call EXCEPT !.op = "kgtk_regex",
                            !.out = kgtk_regex(call.pre, call.via)]
    /\ UNCHANGED <<files, master, rows, fileinfo, graphinfo, txn>>

\* the query evaluates an accessor on x
CallAccessor ==
    /\ call.op = "eval_accessor"
    /\ call' = [call EXCEPT !.op = call.via, !.via = "none",
                            !.raised = Apply(call.via, call.pre).raised,
                            !.out = Apply(call.via, call.pre).value]
    /\ UNCHANGED <<files, master, rows, fileinfo, graphinfo, txn>>

\* run parses the parameter specs of the command line
ParseQueryParameters ==
    /\ call.op = "parse_paras"
    /\ LET r == parse_query_parameters(call.pre.regular, call.pre.string,
                                       call.pre.lqstring)
       IN  call' = [call EXCEPT !.op = "parse_query_parameters",
                                !.raised = r.raised, !.out = r.value]
    /\ UNCHANGED <<files, master, rows, fileinfo, graphinfo, txn>>

\* the query evaluates kgtk_stringify(x) and kgtk_unstringify of the result
CallStringify ==
    /\ call.op = "eval_stringify"
    /\ call' = [call EXCEPT !.op = "kgtk_stringify",
                            !.out = [stringified |-> kgtk_stringify(call.pre),
                                     back |-> kgtk_unstringify(kgtk_stringify(call.pre))]]
    /\ UNCHANGED <<files, master, rows, fileinfo, graphinfo, txn>>

NextUdf ==
    \/ CallRegex
    \/ CallAccessor
    \/ ParseQueryParameters
    \/ CallStringify

SpecUdf == InitUdf /\ [][NextUdf]_vars

(***************************************************************************)
(* Properties of the graph cache.                                          *)
(***************************************************************************)
\* the fileinfo row of p's real path records the file's current size and modtime
FreshInfo(p) ==
    \E r \in fileinfo : /\ r.file = RealPath(p)
                        /\ r.size = FileSize(files[RealPath(p)].rows)
                        /\ r.modtime = files[RealPath(p)].modtime

\* a fileinfo row of p's real path exists and its size or modtime is not the file's
StaleInfo(p) ==
    /\ \E r \in fileinfo : r.file = RealPath(p)
    /\ ~FreshInfo(p)

\* C1: add_graph(file) while the FileInfo row of the file's real path matches
\* the file's size and modification time imports nothing and leaves the
\* fileinfo rows, the graphinfo rows and every graph table unchanged.
C1_FreshAddGraphChangesNothing ==
    [][\A p \in Paths, engine \in Engines, now \in Clock :
          (call'.op = "add_graph" /\ FreshInfo(p) /\ AddGraph(p, engine, now))
              => (UNCHANGED <<master, rows, fileinfo, graphinfo>> /\ call'.via = "none")]_vars

\* an add_graph of a fresh file has returned in a cache that holds an index
C1_Witness ==
    /\ call.op = "add_graph" /\ call.pre = "fresh"
    /\ \E m \in master : m.type = "index"

\* what C2 says of the cache after add_graph(p), old being the table the
\* file's FileInfo row named before the call
ReimportedAfter(p, old) ==
    /\ Cardinality(FileRows(DB, RealPath(p))) = 1
    /\ \A r \in FileRows(DB, RealPath(p)) :
          /\ r.size = FileSize(files[RealPath(p)].rows)
          /\ r.modtime = files[RealPath(p)].modtime
          /\ has_table(DB, r.graph)
          /\ Cardinality(GraphRows(DB, r.graph)) = 1
          \* the table is a new one: it carries no index of the old one
          /\ \A m \in master : m.tbl_name = r.graph => m.type = "table"
          /\ r.graph # old =>
                /\ \A m \in master : m.tbl_name # old
                /\ GraphRows(DB, old) = {}

SmallestUnused ==
    CHOOSE n \in 1..(MaxTables + 1) :
        /\ ~has_table(DB, GraphTable(n))
        /\ \A k \in 1..(n - 1) : has_table(DB, GraphTable(k))

\* C3 as stated: new_graph_table returns graph_N with N the smallest positive
\* integer for which no table graph_N exists.
C3_NewTableIsSmallestUnused == NewGraphId(DB) = SmallestUnused

\* C3 amended: new_graph_table returns graph_N with N the smallest integer
\* greater than the number of GraphInfo rows for which no table graph_N exists.
C3_NewTableIsSmallestAboveCount ==
    /\ NewGraphId(DB) > number_of_graphs(DB)
    /\ ~has_table(DB, GraphTable(NewGraphId(DB)))
    /\ \A k \in (number_of_graphs(DB) + 1)..(NewGraphId(DB) - 1) :
          has_table(DB, GraphTable(k))

\* a drop has left a gap below the tables in use, which new_graph_table skips
C3_Witness ==
    /\ call.op = "drop_graph" /\ call.pre # "absent"
    /\ NewGraphId(DB) > SmallestUnused

\* what C4 says of the cache after drop_graph(t)
Dropped(t) ==
    /\ \A r \in fileinfo : r.graph # t
    /\ \A r \in graphinfo : r.name # t
    /\ ~has_table(DB, t)
    /\ \A m \in master : m.tbl_name # t

\* C4: after drop_graph(t) no FileInfo row names t, no GraphInfo row for t
\* exists, and neither the table t nor an index on it exists.
C4_DropGraphRemovesAll ==
    [][\A t \in GraphNames :
          (call'.op = "drop_graph" /\ DropGraphCall(t)) => Dropped(t)']_vars

\* an indexed graph has been dropped
C4_Witness == call.op = "drop_graph" /\ call.pre = "indexed"

\* C5: ensure_graph_index(table, column) is a no-op when <table>_<column>_idx
\* exists: it creates no index, leaves GraphInfo.size as it is and raises
\* nothing; and a call that creates the index leaves it in place, so the same
\* call made again is this no-op.
C5_EnsureIndexIdempotent ==
    [][\A t \in GraphNames, col \in IndexColumns, unique, explain \in BOOLEAN :
          (call'.op = "ensure_graph_index" /\ EnsureGraphIndex(t, col, unique, explain)) =>
              /\ has_table(DB, get_index_name(t, col)) =>
                    /\ UNCHANGED <<master, rows, fileinfo, graphinfo>>
                    /\ call'.raised = "none"
              /\ (~explain /\ call'.raised = "none") =>
                    has_table(DB, get_index_name(t, col))']_vars

\* ensure_graph_index has been called on a column that had its index
C5_Witness ==
    call.op = "ensure_graph_index" /\ call.pre = "indexed" /\ call.via = "none"

\* every row of the file has the arity of the header
WellFormed(p) ==
    \A i \in 1..Len(files[RealPath(p)].rows) :
        Len(files[RealPath(p)].rows[i]) = Len(Header)

\* C6: when the native import fails, the command being unavailable or the
\* engine rejecting the input after the import has started, add_graph falls
\* back to the csv import and the file ends up imported with its FileInfo and
\* GraphInfo recorded.
C6_NativeFailureFallsBack ==
    [][\A p \in Paths, engine \in {"not_found", "rejected"}, now \in Clock :
          (/\ call'.op = "add_graph" /\ ~FreshInfo(p) /\ WellFormed(p)
           /\ AddGraph(p, engine, now))
              => /\ call'.via = "csv"
                 /\ FreshInfo(p)'
                 /\ \A r \in FileRows(DB, RealPath(p))' :
                       GraphRows(DB, r.graph)' # {}]_vars

\* C7: when the csv import fails the error leaves add_graph and the cache is
\* as it was before the call.
C7_FailedCsvImportChangesNothing ==
    [][\A p \in Paths, engine \in Engines, now \in Clock :
          (call'.raised = "ProgrammingError" /\ AddGraph(p, engine, now))
              => UNCHANGED <<master, rows, fileinfo, graphinfo>>]_vars

\* C10: for the pattern (a)-[]->(a) over a graph table, a row of the table
\* is in the query's output if and only if its node1 equals its node2.
C10_ReflexivePattern ==
    (call.op = "query" /\ call.via.n1 = call.via.n2) =>
        \A i \in 1..Len(rows[call.pre]) :
            (\E j \in 1..Len(call.out) : call.out[j] = rows[call.pre][i])
                <=> rows[call.pre][i][1] = rows[call.pre][i][2]

\* the query (a)-[]->(a) has returned some rows of a table and left out others
C10_Witness ==
    /\ call.op = "query" /\ call.via.n1 = call.via.n2
    /\ call.out # <<>>
    /\ Len(call.out) < Len(rows[call.pre])

RECURSIVE Matches(_, _)
\* s is a word of the language of r
Matches(r, s) ==
    CASE r.op = "chr" -> s = <<r.c>>
      [] r.op = "alt" -> Matches(r.args[1], s) \/ Matches(r.args[2], s)
      [] r.op = "cat" ->
            \E k \in 0..Len(s) :
                /\ Matches(r.args[1], SubSeq(s, 1, k))
                /\ Matches(r.args[2], SubSeq(s, k + 1, Len(s)))
      [] r.op = "opt" -> s = <<>> \/ Matches(r.args[1], s)
      [] r.op = "star" ->
            \/ s = <<>>
            \/ \E k \in 1..Len(s) :
                  /\ Matches(r.args[1], SubSeq(s, 1, k))
                  /\ Matches(r, SubSeq(s, k + 1, Len(s)))

\* C8: kgtk_regex(x, p) is true exactly when x is a string and p matches the
\* whole of x; for a non-string x it is false.
C8_RegexMatchesWholeString ==
    call.op = "kgtk_regex" =>
        (call.out <=> (call.pre.type = "str" /\ Matches(call.via, call.pre.s)))

\* the group of the match an accessor returns
Requested(fn) ==
    CASE fn = "kgtk_lqstring_text" -> "text"
      [] fn = "kgtk_lqstring_lang" -> "lang"
      [] fn = "kgtk_lqstring_lang_suffix" -> "lang_suffix"
      [] fn = "kgtk_lqstring_suffix" -> "suffix"
      [] fn = "kgtk_date_date" -> "date"
      [] fn = "kgtk_date_time" -> "time"
      [] fn = "kgtk_date_and_time" -> "date_and_time"
      [] fn = "kgtk_date_year" -> "year"
      [] fn = "kgtk_date_month" -> "month"
      [] fn = "kgtk_date_day" -> "day"
      [] fn = "kgtk_date_hour" -> "hour"
      [] fn = "kgtk_date_minutes" -> "minutes"
      [] fn = "kgtk_date_seconds" -> "seconds"
      [] fn = "kgtk_date_zone" -> "zone"
      [] fn = "kgtk_date_precision" -> "precision"

\* x is a literal of fn's class that holds the component fn asks for
HasComponent(fn, x) ==
    /\ x.type = "str"
    /\ LET m == IF fn \in DateAccessors THEN LaxDateMatch(x.s) ELSE LaxLqMatch(x.s)
       IN  m.matched /\ m.group[Requested(fn)].present

\* C9: every literal accessor returns without raising, and returns null for a
\* non-string, for a string that is no literal of its class and for a literal
\* of its class in which the requested component is absent.
C9_AccessorsReturnNullNeverRaise ==
    call.op \in Accessors =>
        /\ call.raised = "none"
        /\ ~HasComponent(call.op, call.pre) => call.out = Null

\* the values of the plain items of a RETURN list in a row of the items' values
PlainValues(items, row) ==
    [i \in {j \in 1..Len(items) : items[j].fn = ""} |-> row[i]]

\* C11: when a RETURN list holds an aggregate function the result is grouped
\* by every non-aggregate expression of the list, wherever it stands: the
\* output has one row per distinct combination of the non-aggregate values.
C11_GroupedByEveryPlainItem ==
    (call.op = "return" /\ \E i \in 1..Len(call.via) : call.via[i].fn # "") =>
        LET header == (CHOOSE m \in master : m.name = call.pre).cols
            combos == {[i \in {j \in 1..Len(call.via) : call.via[j].fn = ""} |->
                           rows[call.pre][r][ColumnPos(header, call.via[i].col)]] :
                       r \in 1..Len(rows[call.pre])}
        IN  /\ {PlainValues(call.via, call.out[n]) : n \in 1..Len(call.out)} = combos
            /\ Len(call.out) = Cardinality(combos)

DataTables(db) == {m \in db.master : m.type = "table" /\ m.name # StatTable}

\* g2 is g1 but for the size of the row of table t
SameButSize(g1, g2, t) ==
    /\ {r.name : r \in g1} = {r.name : r \in g2}
    /\ Cardinality(g2) = Cardinality(g1)
    /\ \A r \in g1 : \E r2 \in g2 :
          /\ r2 = [r EXCEPT !.size = r2.size]
          /\ r.name # t => r2 = r

NameOf(pspec) == SubSeq(pspec, 1, find(pspec, "=") - 1)
AfterFirstEq(pspec) == SubSeq(pspec, find(pspec, "=") + 1, Len(pspec))

\* the last regular spec that supplies a name no string or language-qualified
\* spec supplies
LastRegular(pre, i) ==
    /\ i \in 1..Len(pre.regular)
    /\ \A j \in (i + 1)..Len(pre.regular) : NameOf(pre.regular[j]) # NameOf(pre.regular[i])
    /\ \A j \in 1..Len(pre.string) : NameOf(pre.string[j]) # NameOf(pre.regular[i])
    /\ \A j \in 1..Len(pre.lqstring) : NameOf(pre.lqstring[j]) # NameOf(pre.regular[i])

RunFailed ==
    /\ call.op = "run"
    /\ \/ call.pre \in {"no_inputs", "open_store"}
       \/ call.via.import # "none"
       \/ call.pre = "execute"

\* the message of the failure that made the run fail
Underlying ==
    IF call.pre \in {"no_inputs", "open_store"} THEN MessageOf(call.pre)
    ELSE IF call.via.import # "none" THEN call.via.import
    ELSE MessageOf(call.pre)

\* C15: when run fails, while opening the cache, importing a file or
\* executing the query, the error it raises carries the message of the
\* failure, also when the failure happens before the store object exists.
C15_ErrorCarriesUnderlyingMessage ==
    RunFailed => /\ call.raised = "KGTKException"
                 /\ Head(call.out.error) = Underlying

\* C16: a broken pipe while the header or the rows are written ends run
\* without an exception, after the store has been closed.
C16_BrokenPipeEndsQuietly ==
    (call.op = "run" /\ call.pre \in WriteFaults /\ call.via.import = "none")
        => call.raised = "none" /\ call.out.closed

\* the indexes and statistics of a database
Indexes(db) == {m \in db.master : m.type = "index" \/ m.name = StatTable}

\* C17: with explain, ensure_graph_index creates no index, runs no ANALYZE
\* and leaves the GraphInfo row as it is; run with explain adds no index and
\* no statistics, leaves the cache of an imported input as it is, writes the
\* explanation and does not execute the query.
C17_ExplainCreatesNothing ==
    [][/\ (call'.op = "ensure_graph_index" /\ call'.via = "explain")
             => UNCHANGED <<master, rows, fileinfo, graphinfo>>
       /\ (call'.op = "run" /\ call'.via.explain)
             => /\ Indexes(DB)' \subseteq Indexes(DB)
                /\ has_graph(DB, call'.via.input)
                       => UNCHANGED <<master, rows, fileinfo, graphinfo>>
                /\ ~call'.out.executed
                /\ call'.raised = "none" /\ call'.pre # "sigpipe"
                       => call'.out.written = <<"explanation">>]_vars

\* a run with explain has written the explanation of a query over a graph
\* that has no index
C17_Witness ==
    /\ call.op = "run" /\ call.via.explain /\ call.raised = "none"
    /\ call.out.written = <<"explanation">>
    /\ has_graph(DB, call.via.input)
    /\ ~has_index(DB, get_file_info(DB, call.via.input).graph, RunIndexColumn)

\* a string that is already quoted: it starts and ends with a double quote
Quoted(x) == x.type = "str" /\ startswith(x.s, Quote) /\ endswith(x.s, Quote)

\* C18: for every string x that is not already quoted, kgtk_stringify(x) is
\* x between one leading and one trailing double quote and kgtk_unstringify
\* gives x back; an already quoted string is returned unchanged.
C18_StringifyRoundTrip ==
    (call.op = "kgtk_stringify" /\ call.pre.type = "str")
        => IF Quoted(call.pre)
           THEN call.out.stringified = call.pre
           ELSE /\ call.out.stringified = Text(<<Quote>> \o call.pre.s \o <<Quote>>)
                /\ call.out.back = call.pre

\* the rows the join of two files keeps, left rows first: all rows for
\* the outer join, else the rows whose key is in the left file (left join),
\* in the right file (right join) or in both (inner join)
JoinedRows(self, left_kr, right_kr) ==
    LET lk == key_set(left_kr, build_join_idx_list(self, left_kr).value)
        rk == key_set(right_kr, build_join_idx_list(self, right_kr).value)
        keys == [all |-> self.left_join /\ self.right_join,
                 value |-> IF self.left_join THEN lk
                           ELSE IF self.right_join THEN rk ELSE lk \cap rk]
        cols == merge_columns(left_kr, right_kr)
    IN  Kept(left_kr, build_join_idx_list(self, left_kr).value, keys, cols.joined,
             column_names(left_kr))
            \o Kept(right_kr, build_join_idx_list(self, right_kr).value, keys,
                    cols.joined, cols.right)

\* C19: when both inputs are node files, process completes without error
\* for each join mode (inner, left, right, outer) and writes the joined rows.
C19_NodeFilesJoinInEveryMode ==
    (/\ call.op = "process"
     /\ is_node_file(call.pre.left) /\ is_node_file(call.pre.right)
     /\ ~call.via.join_on_label /\ ~call.via.join_on_node2)
        => /\ call.raised = "none"
           /\ Len(call.out.written) > 0
           /\ Tail(call.out.written) = JoinedRows(call.via, call.pre.left, call.pre.right)

C21_SizeIsMeasuredGrowth ==
    [][/\ (call'.op = "add_graph" /\ call'.pre # "fresh" /\ call'.raised = "none")
             => \E f \in fileinfo' : \E g \in graphinfo' :
                   /\ f \notin fileinfo /\ g.name = f.graph
                   /\ g.size = get_db_size(DB)' - get_db_size(DropTable(DB, g.name))'
       /\ (/\ call'.op = "ensure_graph_index" /\ call'.pre = "missing"
           /\ call'.via = "none" /\ call'.raised = "none")
             => \E g \in graphinfo :
                   /\ graphinfo' = (graphinfo \ {g})
                         \cup {[g EXCEPT !.size = @ + get_db_size(DB)' - get_db_size(DB)]}
                   /\ get_db_size(DB)' > get_db_size(DB)]_vars

\* an index has been created on a graph while the catalog holds another
\* graph, and the size of the indexed graph exceeds that of its import
C21_Witness ==
    /\ call.op = "ensure_graph_index" /\ call.pre = "missing"
    /\ call.via = "none" /\ call.raised = "none"
    /\ Cardinality(graphinfo) = 2
    /\ \E g \in graphinfo :
          /\ has_index(DB, g.name, "node1")
          /\ g.size > (1 + Len(rows[g.name])) * PageSize

\* the join keys K that select the written rows: the keys of both files for
\* an inner join, of the left file for a left join, of the right file for a
\* right join, and every key for an outer join
SelectedKeys(self, lk, rk) ==
    IF self.left_join /\ self.right_join THEN lk \cup rk
    ELSE IF self.left_join THEN lk
    ELSE IF self.right_join THEN rk
    ELSE lk \cap rk

\* the rows of the file whose join key is in K, in input order
RowsIn(kr, idx_list, K) ==
    LET Keep(row) == build_join_key(idx_list, row) \in K
    IN  SelectSeq(kr.rows, Keep)

\* the left rows then the right rows whose join key is in K
SelectedRows(self, left_kr, right_kr, left_idx, right_idx) ==
    LET K == SelectedKeys(self, key_set(left_kr, left_idx), key_set(right_kr, right_idx))
    IN  [left |-> RowsIn(left_kr, left_idx, K), right |-> RowsIn(right_kr, right_idx, K)]

\* C22: KgtkJoiner.process and SimpleJoiner.process write every left row
\* whose join key is in K followed by every right row whose join key is in
\* K, each in input order, K being the intersection of the key sets (inner),
\* the left key set (left), the right key set (right) or all keys (outer).
C22_JoinersWriteSelectedRows ==
    /\ (/\ call.op = "process"
        /\ is_edge_file(call.pre.left) = is_edge_file(call.pre.right)
        /\ build_join_idx_list(call.via, call.pre.left).raised = "none")
          => LET left_idx == build_join_idx_list(call.via, call.pre.left).value
                 right_idx == build_join_idx_list(call.via, call.pre.right).value
                 sel == SelectedRows(call.via, call.pre.left, call.pre.right,
                                     left_idx, right_idx)
                 cols == merge_columns(call.pre.left, call.pre.right)
             IN  /\ call.raised = "none"
                 /\ Len(call.out.written) > 0
                 /\ Tail(call.out.written) =
                       [i \in 1..Len(sel.left) |->
                           Shuffled(cols.joined, column_names(call.pre.left), sel.left[i])]
                       \o [i \in 1..Len(sel.right) |->
                             Shuffled(cols.joined, cols.right, sel.right[i])]
    /\ call.op = "simple_process"
          => LET sel == SelectedRows(call.via, call.pre.left, call.pre.right,
                                     <<join_column_idx(call.pre.left)>>,
                                     <<join_column_idx(call.pre.right)>>)
             IN  /\ call.raised = "none"
                 /\ call.out.written =
                       [i \in 1..Len(sel.left) |->
                           [line |-> sel.left[i], shuffle_list |-> "none"]]
                       \o [i \in 1..Len(sel.right) |->
                             [line |-> sel.right[i], shuffle_list |-> "right"]]

(***************************************************************************)
(* generator.py: TripleGenerator and JsonGenerator read an edge file line  *)
(* by line through entry_point and end with finalize.  The document (the   *)
(* etk document, the JSON dictionary) is the sequence of entries added to  *)
(* it; a statement object is known by the id of the edge that created it.  *)
(***************************************************************************)
\* the lines of the input file, header included
MaxLines == 4

\* the header line, and the id of the edge on each later line
HeaderLine == [node1 |-> "node1", label |-> "label", node2 |-> "node2", id |-> "id"]
EdgeIds == <<"e2", "e3", "e4", "e5", "e6">>
IdOf(line_number) == EdgeIds[line_number - 1]

Nodes == {"Q1", "Q2"}
TimeValues == {"^2013-01-01T00:00:00Z/11"}
\* the label and node2 columns of the edges: P1 is declared an item
\* property, P2 a time property, "label" is in the label set
PropValues == {<<"P1", "Q2">>, <<"label", "x">>}
                  \cup {<<"P2", v>> : v \in TimeValues \cup {"bad"}}

\* the edges that can stand on a line: about a node, or about the edge of
\* an earlier line
EdgesAt(line_number) ==
    {[node1 |-> n, label |-> pv[1], node2 |-> pv[2], id |-> IdOf(line_number)] :
        n \in Nodes \cup {IdOf(k) : k \in 2..(line_number - 1)}, pv \in PropValues}

label_set == {"label"}
prop_types == [P1 |-> "item", P2 |-> "time"]

\* Generator.__init__ and the constructors of the two subclasses
NewGenerator ==
    [read_num_of_lines |-> 0, to_append_statement_id |-> NULL,
     corrupted_statement_id |-> NULL, to_append_statement |-> <<>>,
     previous_qnode |-> NULL, doc |-> <<>>, entities |-> {},
     file_num |-> 0, written |-> <<>>]

Entry(kind, id, node1, prop, node2) ==
    [kind |-> kind, id |-> id, node1 |-> node1, prop |-> prop, node2 |-> node2]

\* TripleGenerator.reset and JsonGenerator.reset
reset(g) ==
    [g EXCEPT !.to_append_statement_id = NULL, !.to_append_statement = <<>>,
              !.read_num_of_lines = 0, !.doc = <<>>, !.entities = {}]

\* TripleGenerator.serialize: the document goes to the output file
TripleGenerator_serialize(g) ==
    reset([g EXCEPT !.written = Append(@, [doc |-> g.doc, entities |-> g.entities])])

\* JsonGenerator.serialize: the dictionary goes to the file numbered file_num
JsonGenerator_serialize(g) ==
    reset([g EXCEPT !.written = Append(@, [doc |-> g.doc, entities |-> g.entities]),
                    !.file_num = @ + 1])

\* what a step of a generator ends with
Generated(raised, success, g) == [raised |-> raised, success |-> success, g |-> g]

\* TripleGenerator.generate_label_triple
generate_label_triple(g, edge) ==
    Generated("none", TRUE,
              [g EXCEPT !.doc = Append(@, Entry("label", edge.id, edge.node1,
                                                edge.label, edge.node2)),
                        !.entities = @ \cup {edge.node1}])

\* TripleGenerator.generate_normal_triple
generate_normal_triple(g, edge, is_qualifier_edge) ==
    LET edge_type == prop_types[edge.label]
        g1 == IF edge_type = "item" THEN [g EXCEPT !.entities = @ \cup {edge.node2}] ELSE g
    IN  IF edge_type = "time" /\ edge.node2 \notin TimeValues
        THEN Generated("none", FALSE, g)
        ELSE IF is_qualifier_edge
        THEN (IF g.to_append_statement = <<>>
              THEN Generated("AttributeError", FALSE, g1)
              ELSE Generated("none", TRUE,
                      [g1 EXCEPT !.doc = Append(@, Entry("qualifier", edge.id,
                                     g.to_append_statement[1], edge.label, edge.node2))]))
        ELSE Generated("none", TRUE,
                [g1 EXCEPT !.doc = Append(@, Entry("statement", edge.id, edge.node1,
                                                   edge.label, edge.node2)),
                           !.entities = @ \cup {edge.node1},
                           !.to_append_statement = <<edge.id>>])

\* the end of TripleGenerator.entry_point: the bookkeeping after the triple
TripleAfter(self, r, edge, is_qualifier_edge) ==
    IF r.raised # "none" THEN r
    ELSE IF ~r.success /\ self.warning
    THEN Generated("none", FALSE,
            IF is_qualifier_edge THEN r.g
            ELSE [r.g EXCEPT !.corrupted_statement_id = edge.id])
    ELSE Generated("none", r.success,
            [r.g EXCEPT !.read_num_of_lines = @ + 1,
                        !.to_append_statement_id =
                            IF is_qualifier_edge THEN @ ELSE edge.id])

\* TripleGenerator.entry_point
TripleGenerator_entry_point(self, g, line_number, edge) ==
    IF line_number = 1 THEN Generated("none", TRUE, g)
    ELSE LET is_qualifier_edge ==
                 /\ line_number # 2
                 /\ (edge.node1 = g.to_append_statement_id
                        \/ edge.node1 = g.corrupted_statement_id)
             g1 == IF line_number # 2 /\ ~is_qualifier_edge
                      /\ g.read_num_of_lines >= self.n
                   THEN TripleGenerator_serialize(g) ELSE g
         IN  IF is_qualifier_edge /\ edge.node1 = g.corrupted_statement_id
             THEN Generated("none", TRUE, g)
             ELSE IF edge.label \in label_set
             THEN TripleAfter(self, generate_label_triple(g1, edge), edge, is_qualifier_edge)
             ELSE TripleAfter(self, generate_normal_triple(g1, edge, is_qualifier_edge),
                              edge, is_qualifier_edge)

\* the id of the last statement of node and prop in the dictionary
\* (claims[prop][-1]), NULL when there is none
LastClaim(doc, node, prop) ==
    LET at == {i \in 1..Len(doc) : /\ doc[i].kind = "statement"
                                   /\ doc[i].node1 = node /\ doc[i].prop = prop}
    IN  IF at = {} THEN NULL
        ELSE doc[CHOOSE i \in at : \A j \in at : j <= i].id

\* JsonGenerator.update_misc_json_dict
update_misc_json_dict(g, edge, field) ==
    LET g1 == IF field # "qualifier" THEN [g EXCEPT !.entities = @ \cup {edge.node1}] ELSE g
    IN  IF field = "label"
        THEN Generated("none", TRUE,
                [g1 EXCEPT !.doc = Append(@, Entry("label", edge.id, edge.node1,
                                                   edge.label, edge.node2))])
        ELSE IF prop_types[edge.label] = "time" /\ edge.node2 \notin TimeValues
        THEN Generated("none", FALSE, g1)
        ELSE IF field = "qualifier"
        THEN (IF g.to_append_statement = <<>>
                 \/ LastClaim(g.doc, g.to_append_statement[1], g.to_append_statement[2]) = NULL
              THEN Generated("KGTKException", FALSE, g1)
              ELSE Generated("none", TRUE,
                      [g1 EXCEPT !.doc = Append(@, Entry("qualifier", edge.id,
                            LastClaim(g.doc, g.to_append_statement[1],
                                      g.to_append_statement[2]),
                            edge.label, edge.node2))]))
        ELSE Generated("none", TRUE,
                [g1 EXCEPT !.doc = Append(@, Entry("statement", edge.id, edge.node1,
                                                   edge.label, edge.node2))])

\* JsonGenerator.update_misc_json_dict_info for the node, the property and
\* the item value of the edge
update_misc_json_dict_info(g, edge, is_qualifier_edge) ==
    [g EXCEPT !.entities =
        @ \cup (IF is_qualifier_edge THEN {} ELSE {edge.node1})
          \cup (IF edge.label \in DOMAIN prop_types THEN {edge.label} ELSE {})
          \cup (IF edge.label \in DOMAIN prop_types /\ prop_types[edge.label] = "item"
                THEN {edge.node2} ELSE {})]

\* the end of JsonGenerator.entry_point
JsonAfter(self, r, edge, is_qualifier_edge) ==
    IF r.raised # "none" THEN r
    ELSE IF ~r.success /\ self.warning
    THEN Generated("none", FALSE,
            IF is_qualifier_edge THEN r.g
            ELSE [r.g EXCEPT !.corrupted_statement_id = edge.id])
    ELSE Generated("none", r.success,
            IF is_qualifier_edge THEN r.g
            ELSE [r.g EXCEPT !.to_append_statement_id = edge.id,
                             !.to_append_statement = <<edge.node1, edge.label>>])

\* JsonGenerator.entry_point serializing at every statement edge after n lines
JsonGenerator_entry_point_any_node(self, g, line_number, edge) ==
    LET g0 == [g EXCEPT !.read_num_of_lines = @ + 1]
    IN  IF line_number = 1 THEN Generated("none", TRUE, g0)
        ELSE LET is_qualifier_edge ==
                     /\ line_number # 2
                     /\ (edge.node1 = g0.to_append_statement_id
                            \/ edge.node1 = g0.corrupted_statement_id)
                 g1 == IF line_number # 2 /\ ~is_qualifier_edge
                          /\ g0.read_num_of_lines >= self.n
                       THEN JsonGenerator_serialize(g0) ELSE g0
                 g2 == IF is_qualifier_edge THEN g1
                       ELSE [g1 EXCEPT !.previous_qnode = edge.node1]
                 g3 == update_misc_json_dict_info(g2, edge, is_qualifier_edge)
             IN  IF edge.label \in label_set
                 THEN update_misc_json_dict(g3, edge, "label")
                 ELSE JsonAfter(self,
                         update_misc_json_dict(g3, edge,
                             IF is_qualifier_edge THEN "qualifier" ELSE "statement"),
                         edge, is_qualifier_edge)

\* JsonGenerator.entry_point
JsonGenerator_entry_point(self, g, line_number, edge) ==
    LET g0 == [g EXCEPT !.read_num_of_lines = @ + 1]
    IN  IF line_number = 1 THEN Generated("none", TRUE, g0)
        ELSE LET is_qualifier_edge ==
                     /\ line_number # 2
                     /\ (edge.node1 = g0.to_append_statement_id
                            \/ edge.node1 = g0.corrupted_statement_id)
                 g1 == IF line_number # 2 /\ ~is_qualifier_edge
                          /\ g0.read_num_of_lines >= self.n
                          /\ g0.previous_qnode # edge.node1
                       THEN JsonGenerator_serialize(g0) ELSE g0
                 g2 == IF is_qualifier_edge THEN g1
                       ELSE [g1 EXCEPT !.previous_qnode = edge.node1]
                 g3 == update_misc_json_dict_info(g2, edge, is_qualifier_edge)
             IN  IF edge.label \in label_set
                 THEN update_misc_json_dict(g3, edge, "label")
                 ELSE JsonAfter(self,
                         update_misc_json_dict(g3, edge,
                             IF is_qualifier_edge THEN "qualifier" ELSE "statement"),
                         edge, is_qualifier_edge)

\* Generator.finalize
finalize(self, g) ==
    IF self.kind = "triple" THEN TripleGenerator_serialize(g) ELSE JsonGenerator_serialize(g)

GeneratorOptions == [kind : {"triple", "json"}, warning : BOOLEAN, n : {1, 2}]

\* the store is not used by the command line tools modelled below: the
\* input files of the store are as first found
Unused ==
    /\ Constructed
    /\ files["f1"] = [rows |-> << <<"a", "a">>, <<"b", "a">> >>, modtime |-> 1]

\* a generator is constructed; no line has been read
InitGen ==
    /\ Unused
    /\ call \in {[NoCall EXCEPT !.op = "generator", !.via = o, !.pre = <<>>,
                                !.out = NewGenerator] : o \in GeneratorOptions}

\* the lines read so far are call.pre, the generator is call.out
Reading(kind) ==
    /\ call.op \in {"generator", "entry_point"}
    /\ call.via.kind = kind
    /\ call.raised = "none"

TripleEntryPoint(edge) ==
    /\ Reading("triple")
    /\ Len(call.pre) < MaxLines
    /\ edge \in (IF call.pre = <<>> THEN {HeaderLine} ELSE EdgesAt(Len(call.pre) + 1))
    /\ \E r \in {TripleGenerator_entry_point(call.via, call.out, Len(call.pre) + 1, edge)} :
          call' = [call EXCEPT !.op = "entry_point", !.pre = Append(@, edge),
                               !.raised = r.raised, !.out = r.g]
    /\ UNCHANGED <<files, master, rows, fileinfo, graphinfo, txn>>

JsonEntryPoint(edge) ==
    /\ Reading("json")
    /\ Len(call.pre) < MaxLines
    /\ edge \in (IF call.pre = <<>> THEN {HeaderLine} ELSE EdgesAt(Len(call.pre) + 1))
    /\ \E r \in {JsonGenerator_entry_point(call.via, call.out, Len(call.pre) + 1, edge)} :
          call' = [call EXCEPT !.op = "entry_point", !.pre = Append(@, edge),
                               !.raised = r.raised, !.out = r.g]
    /\ UNCHANGED <<files, master, rows, fileinfo, graphinfo, txn>>

Finalize ==
    /\ call.op \in {"generator", "entry_point"}
    /\ call.raised = "none"
    /\ call' = [call EXCEPT !.op = "finalize", !.out = finalize(call.via, call.out)]
    /\ UNCHANGED <<files, master, rows, fileinfo, graphinfo, txn>>

AllEdges == {HeaderLine} \cup UNION {EdgesAt(k) : k \in 2..MaxLines}

NextGen ==
    \/ \E edge \in AllEdges : TripleEntryPoint(edge)
    \/ \E edge \in AllEdges : JsonEntryPoint(edge)
    \/ Finalize

SpecGen == InitGen /\ [][NextGen]_vars

\* C23: in both generators, processing a qualifier edge whose node1 is the
\* id of the statement recorded as corrupted raises nothing and leaves the
\* document or dictionary, the statement qualifiers are appended to and
\* the output as they were.
C23_QualifierOfCorruptedIsDropped ==
    [][(/\ call'.op = "entry_point"
        /\ Len(call.pre) >= 2
        /\ call'.pre[Len(call'.pre)].node1 = call.out.corrupted_statement_id)
          => /\ call'.raised = "none"
             /\ call'.out.doc = call.out.doc
             /\ call'.out.entities = call.out.entities
             /\ call'.out.written = call.out.written]_vars

\* the statement edge that the lines read last belong to: the last line
\* about a node, all lines after it being qualifier edges on its id
RunStart(h) ==
    {j \in 2..Len(h) : /\ h[j].node1 \in Nodes
                       /\ \A i \in (j + 1)..Len(h) : h[i].node1 = IdOf(j)
                       /\ j < Len(h) => h[j].label \notin label_set}

\* C24: JsonGenerator.entry_point serializes only on a statement edge (not a
\* qualifier of the last or of the corrupted statement) whose node1 differs
\* from that of the previous statement edge, when at least n lines were
\* read since the last serialization; so no file ends between a statement
\* and a qualifier edge following it, nor between two statement edges of
\* the same node1 that follow each other with their qualifiers.
C24_SerializeOnlyBetweenNodes ==
    [][(call'.op = "entry_point" /\ call.via.kind = "json")
          => LET edge == call'.pre[Len(call'.pre)]
                 g == call.out
             IN  /\ call'.out.written # g.written
                      => /\ edge.node1 \notin {g.to_append_statement_id,
                                               g.corrupted_statement_id}
                         /\ edge.node1 # g.previous_qnode
                         /\ g.read_num_of_lines + 1 >= call.via.n
                         /\ call'.out.file_num = g.file_num + 1
                 /\ \A j \in RunStart(call.pre) :
                       (\/ edge.node1 = IdOf(j) /\ call.pre[j].label \notin label_set
                        \/ edge.node1 = call.pre[j].node1)
                          => call'.out.written = g.written]_vars

C24_Witness ==
    /\ call.op = "entry_point" /\ call.via.kind = "json" /\ call.via.n = 2
    /\ Len(call.pre) = 4 /\ call.pre[3].node1 = IdOf(2)
    /\ call.pre[2].label = "P1"
    /\ Len(call.out.written) = 1
    /\ Len(call.out.written[1].doc) = 2
    /\ call.out.written[1].doc[2].kind = "qualifier"
    /\ Len(call.out.doc) = 1

\* C28: in TripleGenerator, after every processed line to_append_statement
\* is the statement identified by to_append_statement_id (also after label
\* edges, failed statements and serializations), so that an edge treated as
\* a qualifier is attached to the statement whose edge id is its node1.
C28_AppendStatementIsIdentified ==
    (call.op = "entry_point" /\ call.via.kind = "triple")
        => /\ call.out.to_append_statement_id # NULL
                => call.out.to_append_statement = <<call.out.to_append_statement_id>>
           /\ call.raised = "none"
           /\ \A k \in 1..Len(call.out.doc) :
                 call.out.doc[k].kind = "qualifier"
                    => \E i \in 2..Len(call.pre) :
                          /\ call.pre[i].id = call.out.doc[k].id
                          /\ call.pre[i].node1 = call.out.doc[k].node1

(***************************************************************************)
(* cli/calc.py: the expansion of the --columns list of run.                *)
(***************************************************************************)
\* the longest --columns list
MaxColumnArgs == 3

\* kr.column_names of the input file
CalcColumns == <<"A", "B", "C", "D", "E">>
CalcNames == {CalcColumns[i] : i \in 1..Len(CalcColumns)}

ellipses == "..."
ranger == ".."

ColumnArgs == SpecLists(CalcNames \cup {ellipses, ranger}, MaxColumnArgs)

\* kr.column_name_map: the index of the column, from 0
column_name_map(name) == ColumnPos(CalcColumns, name) - 1

\* list.remove
RECURSIVE Remove(_, _)
Remove(names, name) ==
    IF names = <<>> THEN <<>>
    ELSE IF Head(names) = name THEN Tail(names)
    ELSE <<Head(names)>> \o Remove(Tail(names), name)

Member(names, name) == \E i \in 1..Len(names) : names[i] = name

\* the state of the loop over the --columns list
Selecting(raised, selected_names, remaining_names, save_selected_names, saw_ranger) ==
    [raised |-> raised, selected_names |-> selected_names,
     remaining_names |-> remaining_names, save_selected_names |-> save_selected_names,
     saw_ranger |-> saw_ranger]

Raise(st) == [st EXCEPT !.raised = "KGTKException"]

\* selected_names.append(name); remaining_names.remove(name)
Select(st, name) ==
    [st EXCEPT !.selected_names = Append(@, name),
               !.remaining_names = Remove(@, name)]

\* the while loop of a range: kr.column_names[idx] counts from the end of
\* the list for a negative idx and raises IndexError outside the list
RECURSIVE RangeLoop(_, _, _, _)
RangeLoop(idx, end_idx, idx_inc, st) ==
    IF ~(idx <= end_idx) THEN st
    ELSE IF idx >= Len(CalcColumns) \/ idx < 0 - Len(CalcColumns) THEN Raise(st)
    ELSE LET idx_column_name ==
                 CalcColumns[IF idx >= 0 THEN idx + 1 ELSE Len(CalcColumns) + idx + 1]
         IN  IF ~Member(st.remaining_names, idx_column_name) THEN Raise(st)
             ELSE RangeLoop(idx + idx_inc, end_idx, idx_inc, Select(st, idx_column_name))

\* the body of the loop for a column name after the range operator
ExpandRange(st, column_name) ==
    LET prior_column_name == st.selected_names[Len(st.selected_names)]
        prior_column_idx == column_name_map(prior_column_name)
        column_name_idx == column_name_map(column_name)
        st1 == [st EXCEPT !.saw_ranger = FALSE]
    IN  IF column_name_idx > prior_column_idx
        THEN RangeLoop(prior_column_idx + 1, column_name_idx - 1, 1, st1)
        ELSE RangeLoop(prior_column_idx - 1, column_name_idx + 1, 0 - 1, st1)

\* one pass of the loop over column_names
SelectColumn(st, column_name) ==
    IF column_name = ellipses
    THEN (IF st.save_selected_names # <<>> \/ st.saw_ranger THEN Raise(st)
          ELSE [st EXCEPT !.save_selected_names = <<st.selected_names>>,
                          !.selected_names = <<>>])
    ELSE IF column_name = ranger
    THEN (IF Len(st.selected_names) = 0 THEN Raise(st)
          ELSE [st EXCEPT !.saw_ranger = TRUE])
    ELSE IF ~Member(CalcColumns, column_name) THEN Raise(st)
    ELSE IF ~Member(st.remaining_names, column_name) THEN Raise(st)
    ELSE LET st1 == IF st.saw_ranger THEN ExpandRange(st, column_name) ELSE st
         IN  IF st1.raised # "none" THEN st1
             ELSE IF ~Member(st1.remaining_names, column_name) THEN Raise(st1)
             ELSE Select(st1, column_name)

RECURSIVE SelectColumns(_, _)
SelectColumns(st, names_given) ==
    IF names_given = <<>> \/ st.raised # "none" THEN st
    ELSE SelectColumns(SelectColumn(st, Head(names_given)), Tail(names_given))

\* run of calc up to the list of selected names: [raised, selected_names];
\* save_selected_names is <<>> for None, else the one-element list of the
\* names saved at the ellipses
selected_names_of(names_given) ==
    LET st == SelectColumns(Selecting("none", <<>>, CalcColumns, <<>>, FALSE), names_given)
    IN  IF st.raised # "none" \/ st.saw_ranger
        THEN [raised |-> "KGTKException", selected_names |-> <<>>]
        ELSE [raised |-> "none",
              selected_names |->
                  IF st.save_selected_names = <<>> THEN st.selected_names
                  ELSE st.save_selected_names[1] \o st.remaining_names \o st.selected_names]

\* calc is started with a --columns list
InitCalc ==
    /\ Unused
    /\ call \in {[NoCall EXCEPT !.op = "calc", !.pre = c] : c \in ColumnArgs}

Calc ==
    /\ call.op = "calc"
    /\ \E r \in {selected_names_of(call.pre)} :
          call' = [call EXCEPT !.op = "select_columns", !.raised = r.raised,
                               !.out = r.selected_names]
    /\ UNCHANGED <<files, master, rows, fileinfo, graphinfo, txn>>

NextCalc == Calc

SpecCalc == InitCalc /\ [][NextCalc]_vars

\* the columns from position i to position j of the file, counting down
\* when j < i
RECURSIVE FromTo(_, _)
FromTo(i, j) ==
    IF i = j THEN <<CalcColumns[i]>>
    ELSE <<CalcColumns[i]>> \o FromTo(IF i < j THEN i + 1 ELSE i - 1, j)

\* C25: for two distinct columns A and B of the file, the list 'A .. B'
\* selects without error A, the columns between A and B and B, each once,
\* in file order when A precedes B and in reverse file order when B
\* precedes A.
C25_RangeSelectsColumnsBetween ==
    (/\ call.op = "select_columns"
     /\ Len(call.pre) = 3 /\ call.pre[2] = ranger
     /\ call.pre[1] \in CalcNames /\ call.pre[3] \in CalcNames
     /\ call.pre[1] # call.pre[3])
        => /\ call.raised = "none"
           /\ call.out = FromTo(ColumnPos(CalcColumns, call.pre[1]),
                                ColumnPos(CalcColumns, call.pre[3]))

(***************************************************************************)
(* cli/sort.py: the control process (run, cleanup, keyboard_interrupt),    *)
(* the background data pipeline it starts, and the in-memory python_sort.  *)
(***************************************************************************)
\* the most data rows of a file sorted in memory
MaxRows == 3
\* the most calls of cleanup in one run
MaxCleanups == 3

SortColumns == <<"node1", "label", "node2">>
SortRows == {<<"a", "l", "x">>, <<"a", "l", "y">>, <<"b", "l", "x">>}
\* the order of the field values as strings
Ord == [a |-> 1, b |-> 2, l |-> 3, x |-> 4, y |-> 5]

\* the --columns tokens: column numbers and column names
Digits == ("0" :> 0) @@ ("1" :> 1) @@ ("2" :> 2) @@ ("4" :> 4)
SortTokens == {"0", "1", "2", "4", "node2", "zz"}
SortColumnArgs == {<<>>} \cup {<<t>> : t \in SortTokens}
                     \cup {<<"1", t>> : t \in {"2", "node2"}}

\* the key_idxs of python_sort, from 0; -1 is the last column
RECURSIVE key_idxs(_)
key_idxs(columns) ==
    IF columns = <<>> THEN [raised |-> "none", value |-> <<>>]
    ELSE LET column_name_2 == Head(columns)
             rest == key_idxs(Tail(columns))
             isdigit == column_name_2 \in DOMAIN Digits
         IN  IF isdigit /\ Digits[column_name_2] > Len(SortColumns)
             THEN [raised |-> "KGTKException", value |-> <<>>]
             ELSE IF ~isdigit /\ ColumnPos(SortColumns, column_name_2) = 0
             THEN [raised |-> "KGTKException", value |-> <<>>]
             ELSE IF rest.raised # "none" THEN rest
             ELSE [raised |-> "none",
                   value |-> <<IF isdigit THEN Digits[column_name_2] - 1
                               ELSE ColumnPos(SortColumns, column_name_2) - 1>>
                                 \o rest.value]

\* the sort key of a row: its key fields (joined by KEY_FIELD_SEPARATOR)
SortKey(idxs, row) ==
    [i \in 1..Len(idxs) |-> row[IF idxs[i] >= 0 THEN idxs[i] + 1 ELSE Len(row) + idxs[i] + 1]]

\* the order of str on keys of the same number of one-letter fields
KeyLess(k1, k2) ==
    \E i \in 1..Len(k1) :
        /\ \A j \in 1..(i - 1) : k1[j] = k2[j]
        /\ Ord[k1[i]] < Ord[k2[i]]

\* sorted(lines.keys())
RECURSIVE SortedKeys(_)
SortedKeys(keys) ==
    IF keys = {} THEN <<>>
    ELSE LET least == CHOOSE k \in keys : \A o \in keys \ {k} : KeyLess(k, o)
         IN  <<least>> \o SortedKeys(keys \ {least})

\* python_sort: lines[key] = row for every row, then the rows of the sorted
\* keys; an edge file without id column sorts on node1, label, node2
python_sort(columns, input_rows) ==
    LET given == key_idxs(columns)
        idxs == IF columns = <<>> THEN <<0, 1, 2>> ELSE given.value
        keys == {SortKey(idxs, input_rows[i]) : i \in 1..Len(input_rows)}
        lines == [k \in keys |->
                    input_rows[CHOOSE i \in 1..Len(input_rows) :
                        /\ SortKey(idxs, input_rows[i]) = k
                        /\ \A j \in (i + 1)..Len(input_rows) :
                              SortKey(idxs, input_rows[j]) # k]]
        sorted == SortedKeys(keys)
    IN  IF given.raised # "none" THEN [raised |-> given.raised, written |-> <<>>]
        ELSE [raised |-> "none", written |-> [i \in 1..Len(sorted) |-> lines[sorted[i]]]]

\* the module globals at import, with the state of the operating system:
\* the descriptors open in the control process, the live process groups,
\* the data pipeline, and the system calls cleanup has made
SortGlobals ==
    [pc |-> "init",
     header_read_fd |-> 0 - 1, header_write_fd |-> 0 - 1,
     sortopt_read_fd |-> 0 - 1, sortopt_write_fd |-> 0 - 1,
     cat_proc |-> "None", cmd_proc |-> "None",
     open_fds |-> {}, alive |-> {}, pipeline |-> "none",
     cleanups |-> 0, syscalls |-> <<>>]

\* os.close(fd) inside try ... except os.error: pass
CloseFd(s, fd) ==
    IF fd >= 0
    THEN [s EXCEPT !.open_fds = @ \ {fd},
                   !.syscalls = Append(@, [call |-> "close", arg |-> fd,
                                            ok |-> fd \in s.open_fds])]
    ELSE s

\* proc.kill_group() inside try ... except os.error: pass
KillGroup(s, proc) ==
    IF proc # "None"
    THEN [s EXCEPT !.alive = @ \ {proc},
                   !.pipeline = IF proc = "cmd" /\ "cmd" \in s.alive THEN "killed" ELSE @,
                   !.syscalls = Append(@, [call |-> "kill_group", arg |-> proc,
                                            ok |-> proc \in s.alive])]
    ELSE s

\* cleanup: the second branch clears cat_proc again, as the source does
cleanup(s) ==
    LET s1 == CloseFd(CloseFd(CloseFd(CloseFd(s, s.header_read_fd), s.header_write_fd),
                              s.sortopt_read_fd), s.sortopt_write_fd)
        s2 == [KillGroup(s1, s1.cat_proc) EXCEPT !.cat_proc = "None"]
        s3 == [KillGroup(s2, s2.cmd_proc) EXCEPT !.cat_proc = "None"]
    IN  [s3 EXCEPT !.cleanups = @ + 1]

SortOptions ==
    [input : {"-", "file"}, columns : {"none", "known", "unknown", "out_of_range"},
     mode : {"edge", "node", "unknown"}, header : {"ok", "bad"}]

\* sort is started: for the pipeline, or in memory with --pure-python
InitSort ==
    /\ Unused
    /\ \/ call \in {[NoCall EXCEPT !.op = "sort", !.via = o, !.out = SortGlobals] :
                       o \in SortOptions}
       \/ call \in {[NoCall EXCEPT !.op = "pure_python", !.via = c, !.pre = r] :
                       c \in SortColumnArgs, r \in SpecLists(SortRows, MaxRows)}

PythonSort ==
    /\ call.op = "pure_python"
    /\ \E r \in {python_sort(call.via, call.pre)} :
          call' = [call EXCEPT !.op = "python_sort", !.raised = r.raised, !.out = r.written]
    /\ UNCHANGED <<files, master, rows, fileinfo, graphinfo, txn>>

SortStep(s) ==
    /\ call' = [call EXCEPT !.op = "sort", !.out = s]
    /\ UNCHANGED <<files, master, rows, fileinfo, graphinfo, txn>>

\* run up to the start of the pipeline: the two pipes, cat for a named
\* file, the bash script
StartPipeline ==
    /\ call.op = "sort" /\ call.out.pc = "init"
    /\ SortStep([call.out EXCEPT
          !.pc = "started",
          !.header_read_fd = 3, !.header_write_fd = 4,
          !.sortopt_read_fd = 5, !.sortopt_write_fd = 6,
          !.open_fds = {3, 4, 5, 6},
          !.cat_proc = IF call.via.input = "-" THEN "None" ELSE "cat",
          !.cmd_proc = "cmd",
          !.alive = IF call.via.input = "-" THEN {"cmd"} ELSE {"cat", "cmd"},
          !.pipeline = "started"])

\* the script reads the header line, sends it to the control process and
\* to the output, and waits for the options
PipelineSendsHeader ==
    /\ call.op = "sort" /\ call.out.pipeline = "started"
    /\ SortStep([call.out EXCEPT !.pipeline = "waiting"])

\* run from the reading of the header to the writing of the options: an
\* exception of KgtkReader.open goes to the handler at the end of run; an
\* unknown column, a column number out of range and an unknown file mode
\* call cleanup before they raise
BuildOptions ==
    /\ call.op = "sort" /\ call.out.pc = "started"
    /\ call.out.pipeline = "waiting"
    /\ SortStep(
          IF call.via.header = "bad"
          THEN [call.out EXCEPT !.pc = "raised"]
          ELSE IF \/ call.via.columns \in {"unknown", "out_of_range"}
                  \/ call.via.columns = "none" /\ call.via.mode = "unknown"
          THEN [cleanup(call.out) EXCEPT !.pc = "raised"]
          ELSE [call.out EXCEPT !.pc = "written",
                                !.open_fds = @ \ {call.out.sortopt_write_fd}])

\* the script reads the options and sorts the rest of the input
PipelineSorts ==
    /\ call.op = "sort" /\ call.out.pipeline = "waiting"
    /\ call.out.pc = "written"
    /\ SortStep([call.out EXCEPT !.pipeline = "done", !.alive = {}])

\* the read of the options ends at the end of the file once the control
\* process holds the write end no more: sort runs without options
PipelineReadsEof ==
    /\ call.op = "sort" /\ call.out.pipeline = "waiting"
    /\ call.out.pc # "written"
    /\ call.out.sortopt_write_fd \notin call.out.open_fds
    /\ SortStep([call.out EXCEPT !.pipeline = "eof", !.alive = {}])

\* run after cmd_proc.wait(): cleanup and return 0
WaitAndCleanup ==
    /\ call.op = "sort" /\ call.out.pc = "written"
    /\ call.out.pipeline = "done"
    /\ SortStep([cleanup(call.out) EXCEPT !.pc = "returned"])

\* keyboard_interrupt, called by the command line driver when the
\* interrupt ends run, or arrives after run has ended
KeyboardInterrupt ==
    /\ call.op = "sort" /\ call.out.pc # "exited"
    /\ call.out.cleanups < MaxCleanups
    /\ SortStep([cleanup(call.out) EXCEPT
            !.pc = IF @ \in {"raised", "returned"} THEN @ ELSE "interrupted"])

\* the control process ends: its descriptors are closed by the system
Exit ==
    /\ call.op = "sort" /\ call.out.pc \in {"raised", "returned", "interrupted"}
    /\ SortStep([call.out EXCEPT !.pc = "exited", !.open_fds = {}])

NextSort ==
    \/ PythonSort
    \/ StartPipeline
    \/ PipelineSendsHeader
    \/ BuildOptions
    \/ PipelineSorts
    \/ PipelineReadsEof
    \/ WaitAndCleanup
    \/ KeyboardInterrupt
    \/ Exit

SpecSort == InitSort /\ [][NextSort]_vars

\* the control process and the pipeline both run; interrupts may not come
ControlNext == StartPipeline \/ BuildOptions \/ WaitAndCleanup \/ Exit
PipelineNext == PipelineSendsHeader \/ PipelineSorts \/ PipelineReadsEof
SpecSortLive == SpecSort /\ WF_vars(ControlNext) /\ WF_vars(PipelineNext)

\* C26: once the data pipeline has been started it eventually receives the
\* sort options and sorts, or is killed by the control process; it is never
\* left waiting for options, nor run without them.
C26_PipelineGetsOptionsOrIsKilled ==
    (call.op = "sort" /\ call.out.pipeline = "started")
        ~> (call.op = "sort" /\ call.out.pipeline \in {"done", "killed"})

\* how many times the row stands in the list
CountOf(list, row) == Cardinality({i \in 1..Len(list) : list[i] = row})

\* C27: with --pure-python the rows written are a permutation of the input
\* rows, in ascending order of the sort key of the selected columns, also
\* when several rows have the same key.
C27_PurePythonSortPermutes ==
    (call.op = "python_sort" /\ call.raised = "none")
        => LET idxs == IF call.via = <<>> THEN <<0, 1, 2>> ELSE key_idxs(call.via).value
           IN  /\ Len(call.out) = Len(call.pre)
               /\ \A row \in SortRows : CountOf(call.out, row) = CountOf(call.pre, row)
               /\ \A i \in 1..(Len(call.out) - 1) :
                     ~KeyLess(SortKey(idxs, call.out[i + 1]), SortKey(idxs, call.out[i]))

\* C29: after cleanup has returned, cat_proc and cmd_proc are cleared and
\* the four pipe descriptors are marked closed, and no process group is
\* killed and no descriptor closed a second time by a later cleanup.
C29_CleanupIsIdempotent ==
    (call.op = "sort" /\ call.out.cleanups >= 1)
        => /\ call.out.cat_proc = "None" /\ call.out.cmd_proc = "None"
           /\ call.out.header_read_fd < 0 /\ call.out.header_write_fd < 0
           /\ call.out.sortopt_read_fd < 0 /\ call.out.sortopt_write_fd < 0
           /\ \A i, j \in 1..Len(call.out.syscalls) :
                 (i < j) => \/ call.out.syscalls[i].call # call.out.syscalls[j].call
                            \/ call.out.syscalls[i].arg # call.out.syscalls[j].arg

(***************************************************************************)
(* sqlstore.py: the connection of a store and the user functions created   *)
(* on it (get_conn, close, register_user_function, load_user_function).    *)
(***************************************************************************)
\* the most connections a store opens
MaxConns == 3

\* str.upper on the function names used
upper ==
    ("kgtk_regex" :> "KGTK_REGEX") @@ ("KGTK_REGEX" :> "KGTK_REGEX")
        @@ ("kgtk_date" :> "KGTK_DATE") @@ ("KGTK_DATE" :> "KGTK_DATE")
        @@ ("my_function" :> "MY_FUNCTION") @@ ("MY_FUNCTION" :> "MY_FUNCTION")
FunctionNames == {"kgtk_regex", "KGTK_REGEX", "kgtk_date", "my_function"}

\* SqliteStore.USER_FUNCTIONS once the module is imported
USER_FUNCTIONS == {"KGTK_REGEX", "KGTK_DATE"}

\* the store after __init__: conn is 0 for None, else the number of the
\* connection; created holds the functions created on the open connection
NewStore ==
    [conn |-> 0, connections |-> 0, user_functions |-> {}, created |-> {},
     registered |-> USER_FUNCTIONS]

\* SqliteStore.register_user_function
register_user_function(st, name) ==
    [st EXCEPT !.registered = @ \cup {upper[name]}]

\* SqliteStore.is_user_function
is_user_function(st, name) == upper[name] \in st.registered

\* SqliteStore.get_conn: sqlite3.connect gives a connection without user
\* functions
get_conn(st) ==
    IF st.conn = 0
    THEN [st EXCEPT !.conn = st.connections + 1, !.connections = @ + 1, !.created = {}]
    ELSE st

\* SqliteStore.close without the reset of user_functions
close_keeping_user_functions(st) ==
    IF st.conn # 0
    THEN [st EXCEPT !.conn = 0, !.created = {}]
    ELSE st

\* SqliteStore.close
close(st) ==
    IF st.conn # 0
    THEN [st EXCEPT !.conn = 0, !.created = {}, !.user_functions = {}]
    ELSE st

\* SqliteStore.load_user_function: [raised, st]
load_user_function(st, name, error) ==
    IF upper[name] \in st.user_functions THEN [raised |-> "none", st |-> st]
    ELSE IF is_user_function(st, upper[name])
    THEN LET st1 == get_conn(st)
         IN  [raised |-> "none",
              st |-> [st1 EXCEPT !.created = @ \cup {upper[name]},
                                 !.user_functions = @ \cup {upper[name]}]]
    ELSE IF error THEN [raised |-> "KGTKException", st |-> st]
    ELSE [raised |-> "none", st |-> st]

InitFn ==
    /\ Unused
    /\ call = [NoCall EXCEPT !.op = "store", !.out = NewStore]

FnCall(op, name, error, raised, st) ==
    /\ call' = [call EXCEPT !.op = op, !.pre = name, !.via = error,
                            !.raised = raised, !.out = st]
    /\ UNCHANGED <<files, master, rows, fileinfo, graphinfo, txn>>

RegisterUserFunction(name) ==
    /\ call.op \in {"store", "register", "load", "get_conn", "close_store"}
    /\ FnCall("register", name, FALSE, "none", register_user_function(call.out, name))

LoadUserFunction(name, error) ==
    /\ call.op \in {"store", "register", "load", "get_conn", "close_store"}
    /\ call.out.conn = 0 => call.out.connections < MaxConns
    /\ \E r \in {load_user_function(call.out, name, error)} :
          FnCall("load", name, error, r.raised, r.st)

GetConn ==
    /\ call.op \in {"store", "register", "load", "get_conn", "close_store"}
    /\ call.out.conn = 0 => call.out.connections < MaxConns
    /\ FnCall("get_conn", "none", FALSE, "none", get_conn(call.out))

CloseStore ==
    /\ call.op \in {"store", "register", "load", "get_conn", "close_store"}
    /\ FnCall("close_store", "none", FALSE, "none", close(call.out))

NextFn ==
    \/ \E name \in FunctionNames : RegisterUserFunction(name)
    \/ \E name \in FunctionNames, error \in BOOLEAN : LoadUserFunction(name, error)
    \/ GetConn
    \/ CloseStore

SpecFn == InitFn /\ [][NextFn]_vars

\* C30: after any sequence of register, load_user_function, get_conn and
\* close calls, every name in user_functions has been created on the open
\* connection (none when the store is closed); close empties the set; a
\* load of a registered name leaves it created on the open connection; a
\* load of a name that is not registered raises KGTKException when error
\* is true, returns when it is false, and changes nothing.
C30_UserFunctionsAreOnTheConnection ==
    [][/\ call'.out.user_functions \subseteq call'.out.created
       /\ call'.out.conn = 0 => call'.out.user_functions = {}
       /\ call'.op = "close_store" => call'.out.user_functions = {}
       /\ call'.op = "load"
             => IF upper[call'.pre] \in call.out.registered
                THEN /\ call'.raised = "none"
                     /\ call'.out.conn # 0
                     /\ upper[call'.pre] \in call'.out.created
                ELSE /\ call'.raised = (IF call'.via THEN "KGTKException" ELSE "none")
                     /\ call'.out = call.out]_vars

\* a function loaded on the first connection has been created again on
\* the second, after a close
C30_Witness ==
    /\ call.op = "load" /\ call.out.conn = 2
    /\ "KGTK_REGEX" \in call.out.user_functions
    /\ "KGTK_REGEX" \in call.out.created

\* C30 as first stated: every load of a name that was never registered
\* raises an error.
C30_UnregisteredAlwaysRaises ==
    [][(call'.op = "load" /\ upper[call'.pre] \notin call.out.registered)
          => call'.raised # "none"]_vars

====
